---- MODULE Spec2Model ----
(***************************************************************************)
(* Authentication / session / 2FA core of DebtRescue.AI.                   *)
(* The store (User and Session tables) is the state; every service method  *)
(* of AuthService and UserService is one atomic action.  Each handler is   *)
(* written as an operator <Name>Result(...) that returns the outcome seen  *)
(* by the caller together with the store the call leaves behind; the       *)
(* action of the same name installs that store.                            *)
(***************************************************************************)
EXTENDS Integers, Sequences, FiniteSets, TLC

(***************************************************************************)
(* Bounds of the model.                                                    *)
(***************************************************************************)
MaxUsers == 2
MaxSessions == 2
MaxNonce == 3
\* the same two counters in the runs where calls overlap
MaxRaceNonce == 4
MaxRaceSessions == 3
MaxTicks == 1
MaxFailed == 6
MaxCodeIdx == 1

(***************************************************************************)
(* Program constants (durations in seconds, the resolution of a token's    *)
(* iat claim).                                                             *)
(***************************************************************************)
LockThreshold == 5
LockSeconds == 900
VerifyExpirySeconds == 86400
ResetExpirySeconds == 3600
SessionSeconds == 2592000
TotpStepSeconds == 30
TotpWindow == 1
BackupCodeCount == 10
MinPasswordLength == 8
MaxLocalPart == 64
MaxDomain == 255

(***************************************************************************)
(* Null values of the nullable columns.                                    *)
(***************************************************************************)
NoTime == -1
NoToken == 0
NoHash == <<>>
NoId == 0
NoCode == <<"none", 0, 0>>

(***************************************************************************)
(* Characters and strings.  A string is a sequence of one-character        *)
(* strings, so that case folding, trimming and substring search are        *)
(* computed as the code computes them.                                     *)
(***************************************************************************)
UpperChars == <<"A","B","C","D","E","F","G","H","I","J","K","L","M",
                "N","O","P","Q","R","S","T","U","V","W","X","Y","Z">>
LowerChars == <<"a","b","c","d","e","f","g","h","i","j","k","l","m",
                "n","o","p","q","r","s","t","u","v","w","x","y","z">>
DigitChars == {"0","1","2","3","4","5","6","7","8","9"}
SpecialChars == {"!","@","#","$","%","^","&","*","(",")","_","+","-","=",
                 "[","]","{","}",";","'",":","\"","\\","|",",",".","<",">",
                 "/","?"}
Whitespace == {" ", "\t", "\n"}

Range(s) == {s[i] : i \in DOMAIN s}

IsUpper(c) == c \in Range(UpperChars)
IsLower(c) == c \in Range(LowerChars)

ToLowerChar(c) ==
  IF IsUpper(c)
    THEN LowerChars[CHOOSE i \in DOMAIN UpperChars : UpperChars[i] = c]
    ELSE c

ToLowerCase(s) == [i \in DOMAIN s |-> ToLowerChar(s[i])]

Trim(s) ==
  LET keep == {i \in DOMAIN s : s[i] \notin Whitespace}
  IN IF keep = {} THEN <<>>
     ELSE LET lo == CHOOSE i \in keep : \A j \in keep : i <= j
              hi == CHOOSE i \in keep : \A j \in keep : j <= i
          IN SubSeq(s, lo, hi)

Includes(s, w) ==
  \E i \in 1..(Len(s) - Len(w) + 1) : SubSeq(s, i, i + Len(w) - 1) = w

(***************************************************************************)
(* utils/email.ts                                                          *)
(***************************************************************************)
\* the case is kept
normalizeEmailTrimOnly(email) == Trim(email)

normalizeEmail(email) == Trim(ToLowerCase(email))

DisposableDomains ==
  { <<"t","e","m","p","m","a","i","l",".","c","o","m">>,
    <<"1","0","m","i","n","u","t","e","m","a","i","l",".","c","o","m">>,
    <<"g","u","e","r","r","i","l","l","a","m","a","i","l",".","c","o","m">> }

\* /^[^\s@]+@[^\s@]+\.[^\s@]+$/
EmailRegexTest(email) ==
  LET ats == {i \in DOMAIN email : email[i] = "@"}
  IN /\ Cardinality(ats) = 1
     /\ \A i \in DOMAIN email : email[i] \notin Whitespace
     /\ LET at == CHOOSE i \in ats : TRUE
        IN /\ at > 1
           /\ \E d \in (at + 2)..(Len(email) - 1) : email[d] = "."

\* "ok" or the message of the ValidationError that validateEmail throws
validateEmail(email) ==
  IF ~EmailRegexTest(email) THEN "Invalid email format"
  ELSE LET at == CHOOSE i \in DOMAIN email : email[i] = "@"
           localPart == SubSeq(email, 1, at - 1)
           domain == SubSeq(email, at + 1, Len(email))
       IN IF Len(localPart) > MaxLocalPart THEN "Email local part too long"
          ELSE IF Len(domain) > MaxDomain THEN "Email domain too long"
          ELSE IF \E d \in DisposableDomains : Includes(ToLowerCase(domain), d)
            THEN "Disposable email addresses are not allowed"
          ELSE "ok"

(***************************************************************************)
(* utils/password.ts                                                       *)
(***************************************************************************)
WeakPasswords ==
  { <<"p","a","s","s","w","o","r","d">>,
    <<"1","2","3","4","5","6","7","8">>,
    <<"q","w","e","r","t","y">>,
    <<"a","b","c","1","2","3">> }

\* "ok" or the message of the ValidationError that validatePasswordStrength throws
validatePasswordStrength(password) ==
  IF Len(password) < MinPasswordLength
    THEN "Password must be at least 8 characters long"
  ELSE IF ~\E i \in DOMAIN password : IsUpper(password[i])
    THEN "Password must contain at least one uppercase letter"
  ELSE IF ~\E i \in DOMAIN password : IsLower(password[i])
    THEN "Password must contain at least one lowercase letter"
  ELSE IF ~\E i \in DOMAIN password : password[i] \in DigitChars
    THEN "Password must contain at least one number"
  ELSE IF ~\E i \in DOMAIN password : password[i] \in SpecialChars
    THEN "Password must contain at least one special character"
  ELSE IF \E weak \in WeakPasswords : Includes(ToLowerCase(password), weak)
    THEN "Password is too weak"
  ELSE "ok"

\* bcrypt.hash: a one-way image of the password (the salt is not modelled)
hashPassword(password) == <<"$2b$12$">> \o password

\* bcrypt.compare
comparePassword(password, hash) == hash = hashPassword(password)

(***************************************************************************)
(* utils/crypto.ts and utils/totp.ts.  Random values are drawn from the    *)
(* counter nonce, so every generated token, secret and batch of backup     *)
(* codes is fresh.                                                         *)
(***************************************************************************)
\* the i-th code of the batch generated from random draw n
BackupCode(n, i) == <<"backup", n, i>>

\* one code short
generateBackupCodesShort(n, count) == [i \in 1..(count - 1) |-> BackupCode(n, i)]

generateBackupCodes(n, count) == [i \in 1..count |-> BackupCode(n, i)]

hashBackupCode(code) == <<"sha256">> \o code

\* the code an authenticator app shows for a secret in time step `step`
TotpCode(secret, step) == <<"totp", secret, step>>

TotpStep(t) == t \div TotpStepSeconds

verifyTOTPAt(token, secret, t) ==
  /\ token[1] = "totp"
  /\ token[2] = secret
  /\ token[3] >= TotpStep(t) - TotpWindow
  /\ token[3] <= TotpStep(t) + TotpWindow

(***************************************************************************)
(* utils/jwt.ts: a signed token is its payload; two tokens signed for the  *)
(* same payload in the same second are the same string.                    *)
(***************************************************************************)
AccessTokenSeconds == 900

SignToken(type, userId, email, t) ==
  [type |-> type, userId |-> userId, email |-> email, iat |-> t]

generateAccessTokenAt(userId, email, t) == SignToken("access", userId, email, t)

generateRefreshTokenAt(userId, email, t) == SignToken("refresh", userId, email, t)

NoJwt == [type |-> "none", userId |-> NoId, email |-> <<>>, iat |-> 0]

RefreshTokenSeconds == 2592000

TokenLifetime(token) ==
  IF token.type = "access" THEN AccessTokenSeconds ELSE RefreshTokenSeconds

\* expiry is not checked
verifyTokenAtLax(token, t) ==
  IF token.type \notin {"access", "refresh"} THEN "Invalid token" ELSE "ok"

\* "ok" or the message of the UnauthorizedError that verifyToken throws at
\* time t.  A string that was not signed with the secret is NoJwt.
verifyTokenAt(token, t) ==
  IF token.type \notin {"access", "refresh"} THEN "Invalid token"
  ELSE IF t >= token.iat + TokenLifetime(token) THEN "Token expired"
  ELSE "ok"

(***************************************************************************)
(* Inputs.                                                                 *)
(***************************************************************************)
EmailA == <<"a","@","b",".","c","o">>
EmailAUpper == <<" ","A","@","B",".","c","o"," ">>
EmailB == <<"c","@","b",".","c","o">>
EmailDisposable == <<"x","@","t","e","m","p","m","a","i","l",".","c","o","m">>
EmailMalformed == <<"a","b",".","c","o">>

\* A@B.co
EmailAMixed == <<"A","@","B",".","c","o">>

EmailInputs == {EmailA, EmailAUpper, EmailB, EmailDisposable, EmailMalformed}

\* P@ssw0rd1
PwA == <<"P","@","s","s","w","0","r","d","1">>
\* New!Pass9
PwB == <<"N","e","w","!","P","a","s","s","9">>
\* Password1!
PwWeak == <<"P","a","s","s","w","o","r","d","1","!">>
\* aB1!
PwShort == <<"a","B","1","!">>

PasswordInputs == {PwA, PwB, PwWeak, PwShort}

Providers == {"google", "microsoft", "apple"}
ProviderInputs == {"google"}
ProviderIdInputs == {"g-1"}
JumpInputs == {1, LockSeconds, VerifyExpirySeconds + 1}

(***************************************************************************)
(* State.                                                                  *)
(***************************************************************************)
VARIABLES
  users,        \* User table: id -> row
  sessions,     \* Session table: set of rows
  now,          \* the clock, in seconds
  nonce,        \* number of random values drawn so far
  nextSession,  \* number of Session rows created so far
  ticks,        \* number of clock advances so far
  wrongRun,     \* history: id -> consecutive login calls with a wrong password
  consumed,     \* history: reset tokens, verification tokens and backup codes accepted so far
  inflight,     \* signup calls between their existence check and their create
  pending       \* other calls between the row they read and the row they write

vars == <<users, sessions, now, nonce, nextSession, ticks, wrongRun, consumed, inflight,
          pending>>

UserIds == DOMAIN users

\* prisma.user.create: the column defaults of the users table
NewUserRow(email, hashedPassword) ==
  [ email |-> email,
    hashedPassword |-> hashedPassword,
    failedLoginAttempts |-> 0,
    lockedUntil |-> NoTime,
    emailVerified |-> FALSE,
    emailVerificationToken |-> NoToken,
    emailVerificationExpiry |-> NoTime,
    passwordResetToken |-> NoToken,
    passwordResetExpiry |-> NoTime,
    twoFactorEnabled |-> FALSE,
    twoFactorSecret |-> NoToken,
    backupCodes |-> <<>>,
    providerIds |-> [p \in Providers |-> ""],
    isActive |-> TRUE,
    isSuspended |-> FALSE,
    deletedAt |-> NoTime,
    lastLoginAt |-> NoTime ]

\* prisma.user.findUnique({ where: { email } }); NoId when there is no row
FindByEmail(email) ==
  IF \E u \in UserIds : users[u].email = email
    THEN CHOOSE u \in UserIds : users[u].email = email
    ELSE NoId

SessionsOf(S, u) == {s \in S : s.userId = u}

Init ==
  /\ users = <<>>
  /\ sessions = {}
  /\ now = 0
  /\ nonce = 0
  /\ nextSession = 0
  /\ ticks = 0
  /\ wrongRun = <<>>
  /\ consumed = {}
  /\ inflight = {}
  /\ pending = {}

(***************************************************************************)
(* What a call returns and leaves behind.                                  *)
(***************************************************************************)
Result(kind, msg, U, S, n, ns, at, rt, data) ==
  [ kind |-> kind, msg |-> msg, users |-> U, sessions |-> S, nonce |-> n,
    nextSession |-> ns, accessToken |-> at, refreshToken |-> rt, data |-> data ]

\* a thrown error before any write
Reject(kind, msg, data) ==
  Result(kind, msg, users, sessions, nonce, nextSession, NoJwt, NoJwt, data)

Within(r) ==
  /\ Cardinality(DOMAIN r.users) <= MaxUsers
  /\ r.nonce <= MaxNonce
  /\ r.nextSession <= MaxSessions
  /\ \A u \in DOMAIN r.users : r.users[u].failedLoginAttempts <= MaxFailed

Install(r) ==
  /\ Within(r)
  /\ users' = r.users
  /\ sessions' = r.sessions
  /\ nonce' = r.nonce
  /\ nextSession' = r.nextSession
  /\ inflight' = inflight
  /\ pending' = pending

(***************************************************************************)
(* AuthService.createSession: prisma.session.create fails with P2002 when  *)
(* the refreshToken column already holds the value.                        *)
(***************************************************************************)
SessionRow(id, userId, refreshToken, t) ==
  [ id |-> id, userId |-> userId, refreshToken |-> refreshToken,
    expiresAt |-> t + SessionSeconds, lastUsedAt |-> t, isRevoked |-> FALSE ]

RefreshTokenTaken(S, refreshToken) == \E s \in S : s.refreshToken = refreshToken

\* the user's other sessions are replaced by the new one
createSessionSingle(S, ns, userId, refreshToken) ==
  {x \in S : x.userId # userId} \cup {SessionRow(ns + 1, userId, refreshToken, now)}

\* the row is not written
createSessionDropped(S, ns, userId, refreshToken) == S

createSession(S, ns, userId, refreshToken) ==
  S \cup {SessionRow(ns + 1, userId, refreshToken, now)}

(***************************************************************************)
(* AuthService.signup                                                      *)
(***************************************************************************)
\* prisma.user.create and what follows it.  The create fails with P2002 on
\* users_email_key when a row already holds the email.
SignupCreateResult(normalizedEmail, password) ==
  LET id == Cardinality(UserIds) + 1
      emailVerificationToken == nonce + 1
      row == [NewUserRow(normalizedEmail, hashPassword(password)) EXCEPT
                !.emailVerificationToken = emailVerificationToken,
                !.emailVerificationExpiry = now + VerifyExpirySeconds]
      U == (id :> row) @@ users
      accessToken == generateAccessTokenAt(id, normalizedEmail, now)
      refreshToken == generateRefreshTokenAt(id, normalizedEmail, now)
  IN IF FindByEmail(normalizedEmail) # NoId
       THEN Reject("PrismaError", "P2002", NoId)
     ELSE IF RefreshTokenTaken(sessions, refreshToken)
       THEN Result("PrismaError", "P2002", U, sessions, nonce + 1, nextSession,
                   NoJwt, NoJwt, id)
     ELSE Result("ok",
                 "Account created successfully. Please check your email to verify your account.",
                 U, createSession(sessions, nextSession, id, refreshToken),
                 nonce + 1, nextSession + 1, accessToken, refreshToken, id)

\* "ok" or the error thrown before the create
SignupChecks(email, password) ==
  IF validateEmail(email) # "ok"
    THEN Reject("ValidationError", validateEmail(email), NoId)
  ELSE IF FindByEmail(normalizeEmail(email)) # NoId
    THEN Reject("ConflictError", "An account with this email already exists", NoId)
  ELSE IF validatePasswordStrength(password) # "ok"
    THEN Reject("ValidationError", validatePasswordStrength(password), NoId)
  ELSE Reject("ok", "checked", NoId)

SignupResult(email, password) ==
  IF SignupChecks(email, password).kind # "ok"
    THEN SignupChecks(email, password)
  ELSE SignupCreateResult(normalizeEmail(email), password)

Signup(email, password) ==
  LET r == SignupResult(email, password)
  IN /\ Install(r)
     /\ wrongRun' = IF r.data # NoId /\ r.data \notin UserIds
                      THEN (r.data :> 0) @@ wrongRun ELSE wrongRun
     /\ UNCHANGED <<now, ticks, consumed>>

\* A signup call that has passed its checks and has not yet reached
\* prisma.user.create; other calls run in between.
Callers == {1, 2}

SignupBegin(caller, email, password) ==
  /\ ~\E c \in inflight : c.caller = caller
  /\ SignupChecks(email, password).kind = "ok"
  /\ inflight' = inflight \cup
       {[caller |-> caller, email |-> normalizeEmail(email), password |-> password]}
  /\ UNCHANGED <<users, sessions, now, nonce, nextSession, ticks, wrongRun, consumed,
                 pending>>

SignupFinishResult(c) == SignupCreateResult(c.email, c.password)

SignupFinish(caller) ==
  \E c \in inflight :
    /\ c.caller = caller
    /\ LET r == SignupFinishResult(c)
       IN /\ Within(r)
          /\ users' = r.users
          /\ sessions' = r.sessions
          /\ nonce' = r.nonce
          /\ nextSession' = r.nextSession
          /\ wrongRun' = IF r.data # NoId /\ r.data \notin UserIds
                           THEN (r.data :> 0) @@ wrongRun ELSE wrongRun
    /\ inflight' = inflight \ {c}
    /\ UNCHANGED <<now, ticks, consumed, pending>>

(***************************************************************************)
(* AuthService.verifyBackupCode: the stored hashes without the first       *)
(* occurrence of the presented code's hash; unchanged when it is not there. *)
(***************************************************************************)
IndexOf(seq, x) ==
  IF \E i \in DOMAIN seq : seq[i] = x
    THEN CHOOSE i \in DOMAIN seq : seq[i] = x /\ \A j \in 1..(i - 1) : seq[j] # x
    ELSE 0

RemoveAt(seq, k) ==
  [i \in 1..(Len(seq) - 1) |-> IF i < k THEN seq[i] ELSE seq[i + 1]]

\* every code is taken for a stored one
verifyBackupCodeAny(backupCodes, code) == [valid |-> TRUE, codes |-> backupCodes]

verifyBackupCode(backupCodes, code) ==
  LET codeIndex == IndexOf(backupCodes, hashBackupCode(code))
  IN IF Len(backupCodes) = 0 \/ codeIndex = 0
       THEN [valid |-> FALSE, codes |-> backupCodes]
       ELSE [valid |-> TRUE, codes |-> RemoveAt(backupCodes, codeIndex)]

(***************************************************************************)
(* AuthService.login.  data = <<user id, password compared, minutes>>      *)
(***************************************************************************)
CeilDiv(a, b) == (a + b - 1) \div b

\* the lock check with the comparison reversed
IsLockedNever(user) == user.lockedUntil # NoTime /\ user.lockedUntil < now

\* user.lockedUntil && user.lockedUntil > new Date()
IsLocked(user) == user.lockedUntil # NoTime /\ user.lockedUntil > now

\* const lockAccount = failedAttempts >= 5
LockAccount(failedAttempts) == failedAttempts >= LockThreshold

\* a wrong password reported as such
WrongPasswordMessageLeaky(lockAccount) ==
  IF lockAccount
    THEN "Too many failed login attempts. Account locked for 15 minutes."
    ELSE "Invalid password"

\* the message of the UnauthorizedError thrown after a wrong password
WrongPasswordMessage(lockAccount) ==
  IF lockAccount
    THEN "Too many failed login attempts. Account locked for 15 minutes."
    ELSE "Invalid email or password"

\* the second factor asked for on the first login only
Requires2FAFirstLoginOnly(user) ==
  user.twoFactorEnabled /\ user.twoFactorSecret # NoToken /\ user.lastLoginAt = NoTime

\* user.twoFactorEnabled && user.twoFactorSecret
Requires2FA(user) == user.twoFactorEnabled /\ user.twoFactorSecret # NoToken

LoginResult(email, password, twoFactorCode) ==
  LET id == FindByEmail(normalizeEmail(email))
  IN IF id = NoId \/ users[id].hashedPassword = NoHash
       THEN Reject("UnauthorizedError", "Invalid email or password", <<id, FALSE, 0>>)
     ELSE LET user == users[id]
              failedAttempts == user.failedLoginAttempts + 1
              lockAccount == LockAccount(failedAttempts)
              needs2FA == Requires2FA(user)
              is2FAValid == verifyTOTPAt(twoFactorCode, user.twoFactorSecret, now)
              backup == verifyBackupCode(user.backupCodes, twoFactorCode)
              useBackup == needs2FA /\ ~is2FAValid
              afterBackup == IF useBackup THEN backup.codes ELSE user.backupCodes
              accessToken == generateAccessTokenAt(id, user.email, now)
              refreshToken == generateRefreshTokenAt(id, user.email, now)
              loggedIn == [users EXCEPT ![id].backupCodes = afterBackup,
                                        ![id].failedLoginAttempts = 0,
                                        ![id].lockedUntil = NoTime,
                                        ![id].lastLoginAt = now]
          IN IF user.isSuspended
               THEN Reject("UnauthorizedError", "Account suspended", <<id, FALSE, 0>>)
             ELSE IF IsLocked(user)
               THEN Reject("UnauthorizedError",
                           "Account locked due to too many failed login attempts",
                           <<id, FALSE, CeilDiv(user.lockedUntil - now, 60)>>)
             ELSE IF ~comparePassword(password, user.hashedPassword)
               THEN Result("UnauthorizedError", WrongPasswordMessage(lockAccount),
                           [users EXCEPT ![id].failedLoginAttempts = failedAttempts,
                                         ![id].lockedUntil =
                                            IF lockAccount THEN now + LockSeconds ELSE NoTime],
                           sessions, nonce, nextSession, NoJwt, NoJwt, <<id, TRUE, 0>>)
             ELSE IF needs2FA /\ twoFactorCode = NoCode
               THEN Reject("requiresTwoFactor", "Two-factor authentication required",
                           <<id, TRUE, 0>>)
             ELSE IF useBackup /\ ~backup.valid
               THEN Reject("UnauthorizedError", "Invalid two-factor authentication code",
                           <<id, TRUE, 0>>)
             ELSE IF RefreshTokenTaken(sessions, refreshToken)
               THEN Result("PrismaError", "P2002", loggedIn, sessions, nonce, nextSession,
                           NoJwt, NoJwt, <<id, TRUE, 0>>)
             ELSE Result("ok", "login", loggedIn,
                         createSession(sessions, nextSession, id, refreshToken),
                         nonce, nextSession + 1, accessToken, refreshToken, <<id, TRUE, 0>>)

\* the codes a caller can present: none, a wrong one, what the authenticator
\* shows now for a stored secret, or a backup code of an issued batch
CodeInputs ==
  {NoCode, TotpCode(NoToken, 0)}
    \cup {TotpCode(users[u].twoFactorSecret, TotpStep(now)) : u \in UserIds}
    \cup {BackupCode(n, i) : n \in 1..nonce, i \in 1..MaxCodeIdx}

UsesBackupCode(r, id, code) ==
  /\ id # NoId
  /\ r.kind \in {"ok", "PrismaError"}
  /\ code[1] = "backup"
  /\ r.users[id].backupCodes # users[id].backupCodes

Login(email, password, twoFactorCode) ==
  LET r == LoginResult(email, password, twoFactorCode)
      id == r.data[1]
      wrong == id # NoId /\ users[id].hashedPassword # NoHash
                 /\ ~comparePassword(password, users[id].hashedPassword)
  IN /\ Install(r)
     /\ wrongRun' = IF id = NoId THEN wrongRun
                    ELSE IF wrong
                      THEN [wrongRun EXCEPT ![id] = IF @ < LockThreshold THEN @ + 1 ELSE @]
                    ELSE [wrongRun EXCEPT ![id] = 0]
     /\ consumed' = IF UsesBackupCode(r, id, twoFactorCode)
                      THEN consumed \cup {twoFactorCode} ELSE consumed
     /\ UNCHANGED <<now, ticks>>

(***************************************************************************)
(* AuthService.oauthLogin.  findFirst with OR returns one of the matching  *)
(* rows; which one is the store's choice (pick).  data = isNewUser         *)
(***************************************************************************)
OauthMatches(provider, providerId, email) ==
  {u \in UserIds : \/ users[u].providerIds[provider] = providerId
                   \/ users[u].email = normalizeEmail(email)}

OauthLoginResult(provider, providerId, email, pick) ==
  LET normalizedEmail == normalizeEmail(email)
      found == pick # NoId
      id == IF found THEN pick ELSE Cardinality(UserIds) + 1
      backfill == found /\ users[id].providerIds[provider] = ""
      taken == \E u \in UserIds : u # id /\ users[u].providerIds[provider] = providerId
      linked == IF backfill THEN [users EXCEPT ![id].providerIds[provider] = providerId]
                ELSE users
      created == [NewUserRow(normalizedEmail, NoHash) EXCEPT
                    !.providerIds[provider] = providerId,
                    !.emailVerified = TRUE]
      U == IF found THEN [linked EXCEPT ![id].lastLoginAt = now]
           ELSE (id :> created) @@ users
      accessToken == generateAccessTokenAt(id, U[id].email, now)
      refreshToken == generateRefreshTokenAt(id, U[id].email, now)
      isNewUser == IF found THEN users[id].lastLoginAt = NoTime ELSE TRUE
  IN IF backfill /\ taken
       THEN Reject("PrismaError", "P2002", isNewUser)
     ELSE IF RefreshTokenTaken(sessions, refreshToken)
       THEN Result("PrismaError", "P2002", U, sessions, nonce, nextSession,
                   NoJwt, NoJwt, isNewUser)
     ELSE Result("ok", "oauth", U, createSession(sessions, nextSession, id, refreshToken),
                 nonce, nextSession + 1, accessToken, refreshToken, isNewUser)

OauthLogin(provider, providerId, email) ==
  \E pick \in IF OauthMatches(provider, providerId, email) = {} THEN {NoId}
              ELSE OauthMatches(provider, providerId, email) :
    LET r == OauthLoginResult(provider, providerId, email, pick)
    IN /\ Install(r)
       /\ wrongRun' = [u \in DOMAIN r.users |-> IF u \in UserIds THEN wrongRun[u] ELSE 0]
       /\ UNCHANGED <<now, ticks, consumed>>

(***************************************************************************)
(* AuthService.verifyEmail.  data = id of the row the token belongs to     *)
(***************************************************************************)
\* the lookup finds no row
FindByVerificationTokenNone(token) == NoId

FindByVerificationToken(token) ==
  IF token # NoToken /\ \E u \in UserIds : users[u].emailVerificationToken = token
    THEN CHOOSE u \in UserIds : users[u].emailVerificationToken = token
    ELSE NoId

VerifyEmailResult(token) ==
  LET id == FindByVerificationToken(token)
  IN IF id = NoId
       THEN Reject("ValidationError", "Invalid verification token", NoId)
     ELSE IF users[id].emailVerificationExpiry # NoTime
               /\ users[id].emailVerificationExpiry < now
       THEN Reject("ValidationError", "Verification token has expired. Please request a new one.", id)
     ELSE IF users[id].emailVerified
       THEN Reject("ValidationError", "Email already verified", id)
     ELSE Result("ok", "Email verified successfully",
                 [users EXCEPT ![id].emailVerified = TRUE,
                               ![id].emailVerificationToken = NoToken,
                               ![id].emailVerificationExpiry = NoTime],
                 sessions, nonce, nextSession, NoJwt, NoJwt, id)

VerifyEmail(token) ==
  LET r == VerifyEmailResult(token)
  IN /\ Install(r)
     /\ consumed' = IF r.kind = "ok" THEN consumed \cup {<<"verify", token, r.data>>}
                    ELSE consumed
     /\ UNCHANGED <<now, ticks, wrongRun>>

(***************************************************************************)
(* AuthService.resendVerificationEmail                                     *)
(***************************************************************************)
ResendVerificationEmailResult(email) ==
  LET id == FindByEmail(normalizeEmail(email))
  IN IF id = NoId
       THEN Reject("ok", "If an account exists, a verification email has been sent.", NoId)
     ELSE IF users[id].emailVerified
       THEN Reject("ValidationError", "Email already verified", id)
     ELSE Result("ok", "If an account exists, a verification email has been sent.",
                 [users EXCEPT ![id].emailVerificationToken = nonce + 1,
                               ![id].emailVerificationExpiry = now + VerifyExpirySeconds],
                 sessions, nonce + 1, nextSession, NoJwt, NoJwt, id)

ResendVerificationEmail(email) ==
  /\ Install(ResendVerificationEmailResult(email))
  /\ UNCHANGED <<now, ticks, wrongRun, consumed>>

(***************************************************************************)
(* AuthService.requestPasswordReset                                        *)
(***************************************************************************)
RequestPasswordResetResult(email) ==
  LET id == FindByEmail(normalizeEmail(email))
  IN IF id = NoId
       THEN Reject("ok",
              "If an account with that email exists, a password reset link has been sent.",
              NoId)
     ELSE Result("ok",
              "If an account with that email exists, a password reset link has been sent.",
              [users EXCEPT ![id].passwordResetToken = nonce + 1,
                            ![id].passwordResetExpiry = now + ResetExpirySeconds],
              sessions, nonce + 1, nextSession, NoJwt, NoJwt, id)

RequestPasswordReset(email) ==
  /\ Install(RequestPasswordResetResult(email))
  /\ UNCHANGED <<now, ticks, wrongRun, consumed>>

(***************************************************************************)
(* AuthService.resetPassword.  data = id of the row the token belongs to   *)
(***************************************************************************)
FindByResetToken(token) ==
  IF \E u \in UserIds : /\ token # NoToken
                        /\ users[u].passwordResetToken = token
                        /\ users[u].passwordResetExpiry # NoTime
                        /\ users[u].passwordResetExpiry > now
    THEN CHOOSE u \in UserIds : /\ users[u].passwordResetToken = token
                                /\ users[u].passwordResetExpiry # NoTime
                                /\ users[u].passwordResetExpiry > now
    ELSE NoId

ResetPasswordResult(token, newPassword) ==
  LET id == FindByResetToken(token)
  IN IF id = NoId
       THEN Reject("ValidationError", "Invalid or expired reset token", NoId)
     ELSE IF validatePasswordStrength(newPassword) # "ok"
       THEN Reject("ValidationError", validatePasswordStrength(newPassword), id)
     ELSE Result("ok", "Password reset successfully. Please log in with your new password.",
                 [users EXCEPT ![id].hashedPassword = hashPassword(newPassword),
                               ![id].passwordResetToken = NoToken,
                               ![id].passwordResetExpiry = NoTime,
                               ![id].failedLoginAttempts = 0,
                               ![id].lockedUntil = NoTime],
                 {s \in sessions : s.userId # id},
                 nonce, nextSession, NoJwt, NoJwt, id)

ResetPassword(token, newPassword) ==
  LET r == ResetPasswordResult(token, newPassword)
  IN /\ Install(r)
     /\ consumed' = IF r.kind = "ok"
                      THEN consumed \cup {<<"reset", token, r.data>>}
                             \cup {<<"revoked", r.data, x.refreshToken.iat>> :
                                     x \in SessionsOf(sessions, r.data)}
                    ELSE consumed
     /\ wrongRun' = IF r.kind = "ok" THEN [wrongRun EXCEPT ![r.data] = 0] ELSE wrongRun
     /\ UNCHANGED <<now, ticks>>

(***************************************************************************)
(* AuthService.enable2FAInit.  data = the generated secret                 *)
(***************************************************************************)
Enable2FAInitResult(userId) ==
  IF userId \notin UserIds
    THEN Reject("NotFoundError", "User not found", NoToken)
  ELSE IF users[userId].twoFactorEnabled
    THEN Reject("ValidationError", "Two-factor authentication is already enabled", NoToken)
  ELSE Result("ok", "Scan the QR code with your authenticator app",
              [users EXCEPT ![userId].twoFactorSecret = nonce + 1],
              sessions, nonce + 1, nextSession, NoJwt, NoJwt, nonce + 1)

Enable2FAInit(userId) ==
  /\ Install(Enable2FAInitResult(userId))
  /\ UNCHANGED <<now, ticks, wrongRun, consumed>>

(***************************************************************************)
(* AuthService.enable2FAVerify.  data = the plaintext backup codes         *)
(***************************************************************************)
\* the check for a stored secret is skipped
SetupInitiatedAlways(user) == TRUE

\* user.twoFactorSecret is set
SetupInitiated(user) == user.twoFactorSecret # NoToken

SetupNotInitiatedMessage ==
  "Two-factor setup not initiated. Please start the setup process first."

Enable2FAVerifyResult(userId, code) ==
  LET backupCodes == generateBackupCodes(nonce + 1, BackupCodeCount)
      hashedBackupCodes == [i \in DOMAIN backupCodes |-> hashBackupCode(backupCodes[i])]
  IN IF userId \notin UserIds
       THEN Reject("NotFoundError", "User not found", <<>>)
     ELSE IF users[userId].twoFactorEnabled
       THEN Reject("ValidationError", "Two-factor authentication is already enabled", <<>>)
     ELSE IF ~SetupInitiated(users[userId])
       THEN Reject("ValidationError", SetupNotInitiatedMessage, <<>>)
     ELSE IF ~verifyTOTPAt(code, users[userId].twoFactorSecret, now)
       THEN Reject("ValidationError", "Invalid verification code", <<>>)
     ELSE Result("ok", "Two-factor authentication enabled successfully",
                 [users EXCEPT ![userId].twoFactorEnabled = TRUE,
                               ![userId].backupCodes = hashedBackupCodes],
                 sessions, nonce + 1, nextSession, NoJwt, NoJwt, backupCodes)

Enable2FAVerify(userId, code) ==
  /\ Install(Enable2FAVerifyResult(userId, code))
  /\ UNCHANGED <<now, ticks, wrongRun, consumed>>

(***************************************************************************)
(* AuthService.disable2FA                                                  *)
(***************************************************************************)
Disable2FAResult(userId, password) ==
  IF userId \notin UserIds
    THEN Reject("NotFoundError", "User not found", <<>>)
  ELSE IF ~users[userId].twoFactorEnabled
    THEN Reject("ValidationError", "Two-factor authentication is not enabled", <<>>)
  ELSE IF users[userId].hashedPassword = NoHash
    THEN Reject("ValidationError", "Cannot disable 2FA for OAuth-only accounts", <<>>)
  ELSE IF ~comparePassword(password, users[userId].hashedPassword)
    THEN Reject("UnauthorizedError", "Invalid password", <<>>)
  ELSE Result("ok", "Two-factor authentication disabled",
              [users EXCEPT ![userId].twoFactorEnabled = FALSE,
                            ![userId].twoFactorSecret = NoToken,
                            ![userId].backupCodes = <<>>],
              sessions, nonce, nextSession, NoJwt, NoJwt, <<>>)

Disable2FA(userId, password) ==
  /\ Install(Disable2FAResult(userId, password))
  /\ UNCHANGED <<now, ticks, wrongRun, consumed>>

(***************************************************************************)
(* AuthService.refreshAccessToken                                          *)
(***************************************************************************)
\* the lookup ignores the token
SessionByTokenAny(S, refreshToken) == S

SessionByToken(S, refreshToken) == {s \in S : s.refreshToken = refreshToken}

\* the call against the store <<U, S>>.  data = id of the session found
RefreshAccessTokenOn(U, S, refreshToken) ==
  IF SessionByToken(S, refreshToken) = {}
    THEN Result("UnauthorizedError", "Invalid refresh token", U, S, nonce, nextSession,
                NoJwt, NoJwt, NoId)
  ELSE LET session == CHOOSE s \in SessionByToken(S, refreshToken) : TRUE
           user == U[session.userId]
       IN IF session.expiresAt < now
            THEN Result("UnauthorizedError", "Refresh token expired", U,
                        S \ {session}, nonce, nextSession, NoJwt, NoJwt, session.id)
          ELSE IF user.isSuspended \/ user.deletedAt # NoTime
            THEN Result("UnauthorizedError", "Account is no longer active", U, S,
                        nonce, nextSession, NoJwt, NoJwt, session.id)
          ELSE Result("ok", "refreshed", U,
                      (S \ {session}) \cup {[session EXCEPT !.lastUsedAt = now]},
                      nonce, nextSession,
                      generateAccessTokenAt(session.userId, user.email, now), NoJwt,
                      session.id)

RefreshAccessTokenResult(refreshToken) == RefreshAccessTokenOn(users, sessions, refreshToken)

RefreshAccessToken(refreshToken) ==
  /\ Install(RefreshAccessTokenResult(refreshToken))
  /\ UNCHANGED <<now, ticks, wrongRun, consumed>>

(***************************************************************************)
(* AuthService.logout, logoutAllDevices, deleteSession                     *)
(***************************************************************************)
LogoutResult(refreshToken) ==
  Result("ok", "Logged out successfully", users,
         {s \in sessions : s.refreshToken # refreshToken},
         nonce, nextSession, NoJwt, NoJwt, NoId)

Gone(S) == {<<"deleted", x.userId, x.refreshToken.iat>> : x \in S}

Logout(refreshToken) ==
  /\ Install(LogoutResult(refreshToken))
  /\ consumed' = consumed \cup Gone(SessionByToken(sessions, refreshToken))
  /\ UNCHANGED <<now, ticks, wrongRun>>

LogoutAllDevicesResult(userId) ==
  Result("ok", "Logged out from all devices successfully", users,
         {s \in sessions : s.userId # userId},
         nonce, nextSession, NoJwt, NoJwt, NoId)

LogoutAllDevices(userId) ==
  /\ Install(LogoutAllDevicesResult(userId))
  /\ consumed' = consumed \cup Gone(SessionsOf(sessions, userId))
  /\ UNCHANGED <<now, ticks, wrongRun>>

\* the session is looked up by its id alone
DeleteSessionAnyOwner(sessionId, userId) ==
  IF ~\E s \in sessions : s.id = sessionId
    THEN Reject("NotFoundError", "Session not found", NoId)
  ELSE Result("ok", "Session deleted successfully", users,
              {s \in sessions : s.id # sessionId},
              nonce, nextSession, NoJwt, NoJwt, NoId)

DeleteSessionResult(sessionId, userId) ==
  IF ~\E s \in sessions : s.id = sessionId /\ s.userId = userId
    THEN Reject("NotFoundError", "Session not found", NoId)
  ELSE Result("ok", "Session deleted successfully", users,
              {s \in sessions : s.id # sessionId},
              nonce, nextSession, NoJwt, NoJwt, NoId)

DeleteSession(sessionId, userId) ==
  LET r == DeleteSessionResult(sessionId, userId)
  IN /\ Install(r)
     /\ consumed' = IF r.kind = "ok"
                      THEN consumed \cup Gone({x \in sessions : x.id = sessionId})
                    ELSE consumed
     /\ UNCHANGED <<now, ticks, wrongRun>>

(***************************************************************************)
(* UserService.revokeSession, revokeAllSessions (UserRepository): the row  *)
(* stays and is marked isRevoked.  prisma.session.update fails with P2025  *)
(* when no row has the id and the userId.                                  *)
(***************************************************************************)
Marked(S) == {<<"marked", x.userId, x.refreshToken.iat>> : x \in S}

RevokeSessionResult(userId, sessionId) ==
  IF ~\E x \in sessions : x.id = sessionId /\ x.userId = userId
    THEN Reject("PrismaError", "P2025", NoId)
  ELSE Result("ok", "Session revoked successfully", users,
              {IF x.id = sessionId THEN [x EXCEPT !.isRevoked = TRUE] ELSE x :
                 x \in sessions},
              nonce, nextSession, NoJwt, NoJwt, sessionId)

RevokeSession(userId, sessionId) ==
  LET r == RevokeSessionResult(userId, sessionId)
  IN /\ Install(r)
     /\ consumed' = IF r.kind = "ok"
                      THEN consumed \cup Marked({x \in sessions : x.id = sessionId})
                    ELSE consumed
     /\ UNCHANGED <<now, ticks, wrongRun>>

RevokeAllSessionsResult(userId, currentSessionId) ==
  Result("ok", "All other sessions have been revoked", users,
         {IF x.userId = userId /\ x.id # currentSessionId
            THEN [x EXCEPT !.isRevoked = TRUE] ELSE x : x \in sessions},
         nonce, nextSession, NoJwt, NoJwt, NoId)

RevokeAllSessions(userId, currentSessionId) ==
  /\ Install(RevokeAllSessionsResult(userId, currentSessionId))
  /\ consumed' = consumed \cup
       Marked({x \in sessions : x.userId = userId /\ x.id # currentSessionId})
  /\ UNCHANGED <<now, ticks, wrongRun>>

(***************************************************************************)
(* authMiddleware.  data = the identity attached to the request (NoId when *)
(* none is attached).  It writes nothing.                                  *)
(***************************************************************************)
\* the token's claims are trusted, the user row is not loaded
AuthMiddlewareTokenOnly(token) ==
  IF verifyTokenAt(token, now) # "ok"
    THEN Reject("UnauthorizedError", verifyTokenAt(token, now), NoId)
  ELSE IF token.type # "access"
    THEN Reject("UnauthorizedError", "Invalid token type", NoId)
  ELSE Result("ok", "next", users, sessions, nonce, nextSession, NoJwt, NoJwt,
              token.userId)

AuthMiddlewareResult(token) ==
  IF verifyTokenAt(token, now) # "ok"
    THEN Reject("UnauthorizedError", verifyTokenAt(token, now), NoId)
  ELSE IF token.type # "access"
    THEN Reject("UnauthorizedError", "Invalid token type", NoId)
  ELSE IF token.userId \notin UserIds
    THEN Reject("UnauthorizedError", "User not found", NoId)
  ELSE IF \/ ~users[token.userId].isActive
          \/ users[token.userId].isSuspended
          \/ users[token.userId].deletedAt # NoTime
    THEN Reject("UnauthorizedError", "Account is not active", NoId)
  ELSE Result("ok", "next", users, sessions, nonce, nextSession, NoJwt, NoJwt,
              token.userId)

AuthMiddleware(token) ==
  /\ Install(AuthMiddlewareResult(token))
  /\ UNCHANGED <<now, ticks, wrongRun, consumed>>

(***************************************************************************)
(* optionalAuthenticate: every failure is swallowed and next() is called   *)
(* without an error.  data = the identity attached (NoId when none).       *)
(***************************************************************************)
OptionalAuthenticateResult(token) ==
  IF /\ verifyTokenAt(token, now) = "ok"
     /\ token.type = "access"
     /\ token.userId \in UserIds
    THEN Result("ok", "next", users, sessions, nonce, nextSession, NoJwt, NoJwt,
                token.userId)
  ELSE Reject("ok", "next", NoId)

OptionalAuthenticate(token) ==
  /\ Install(OptionalAuthenticateResult(token))
  /\ UNCHANGED <<now, ticks, wrongRun, consumed>>

(***************************************************************************)
(* DELETE /users/me/sessions: authMiddleware, then the controller.         *)
(* req.session is attached only when the token payload has a sessionId;    *)
(* the controller passes req.session?.id || '' (here NoId) to the service. *)
(***************************************************************************)
RequestSessionId(token) ==
  IF "sessionId" \in DOMAIN token THEN token.sessionId ELSE NoId

RevokeAllSessionsRequestResult(token) ==
  IF AuthMiddlewareResult(token).kind # "ok"
    THEN AuthMiddlewareResult(token)
  ELSE RevokeAllSessionsResult(AuthMiddlewareResult(token).data,
                               RequestSessionId(token))

RevokeAllSessionsRequest(token) ==
  /\ Install(RevokeAllSessionsRequestResult(token))
  /\ consumed' = consumed \cup
       IF AuthMiddlewareResult(token).kind # "ok" THEN {}
       ELSE Marked({x \in sessions : /\ x.userId = token.userId
                                     /\ x.id # RequestSessionId(token)})
  /\ UNCHANGED <<now, ticks, wrongRun>>

(***************************************************************************)
(* UserService.updatePassword, deleteAccount (UserRepository.softDelete)   *)
(***************************************************************************)
UpdatePasswordResult(userId, currentPassword, newPassword) ==
  IF userId \notin UserIds
    THEN Reject("AppError", "User not found", 404)
  ELSE IF users[userId].hashedPassword = NoHash
    THEN Reject("AppError", "Cannot change password for OAuth-only accounts", 400)
  ELSE IF ~comparePassword(currentPassword, users[userId].hashedPassword)
    THEN Reject("AppError", "Current password is incorrect", 401)
  ELSE Result("ok", "password_changed",
              [users EXCEPT ![userId].hashedPassword = hashPassword(newPassword)],
              sessions, nonce, nextSession, NoJwt, NoJwt, 200)

UpdatePassword(userId, currentPassword, newPassword) ==
  LET r == UpdatePasswordResult(userId, currentPassword, newPassword)
  IN /\ Install(r)
     /\ wrongRun' = IF r.kind = "ok" THEN [wrongRun EXCEPT ![userId] = 0] ELSE wrongRun
     /\ UNCHANGED <<now, ticks, consumed>>

(***************************************************************************)
(* UsersController.updatePassword: the Joi schema of the request body,     *)
(* then the service call.                                                  *)
(***************************************************************************)
JoiSpecialChars == {"!","@","#","$","%","^","&","*"}

\* "ok" or the message of the first schema error
passwordSchema(newPassword) ==
  IF Len(newPassword) < MinPasswordLength
    THEN "\"newPassword\" length must be at least 8 characters long"
  ELSE IF \/ ~\E i \in DOMAIN newPassword : IsUpper(newPassword[i])
          \/ ~\E i \in DOMAIN newPassword : IsLower(newPassword[i])
          \/ ~\E i \in DOMAIN newPassword : newPassword[i] \in DigitChars
          \/ ~\E i \in DOMAIN newPassword : newPassword[i] \in JoiSpecialChars
    THEN "Password must contain uppercase, lowercase, number, and special character"
  ELSE "ok"

UpdatePasswordRequestResult(userId, currentPassword, newPassword) ==
  IF passwordSchema(newPassword) # "ok"
    THEN Reject("AppError", passwordSchema(newPassword), 400)
  ELSE UpdatePasswordResult(userId, currentPassword, newPassword)

UpdatePasswordRequest(userId, currentPassword, newPassword) ==
  LET r == UpdatePasswordRequestResult(userId, currentPassword, newPassword)
  IN /\ Install(r)
     /\ wrongRun' = IF r.kind = "ok" THEN [wrongRun EXCEPT ![userId] = 0] ELSE wrongRun
     /\ UNCHANGED <<now, ticks, consumed>>

DeletedEmail(userId) == <<"deleted_", userId, "@deleted.com">>

DeleteAccountResult(userId, password) ==
  IF userId \notin UserIds
    THEN Reject("AppError", "User not found", 404)
  ELSE IF users[userId].hashedPassword # NoHash
            /\ ~comparePassword(password, users[userId].hashedPassword)
    THEN Reject("AppError", "Password is incorrect", 401)
  ELSE Result("ok", "account_deleted",
              [users EXCEPT ![userId].deletedAt = now,
                            ![userId].isActive = FALSE,
                            ![userId].email = DeletedEmail(userId)],
              sessions, nonce, nextSession, NoJwt, NoJwt, 200)

DeleteAccount(userId, password) ==
  /\ Install(DeleteAccountResult(userId, password))
  /\ UNCHANGED <<now, ticks, wrongRun, consumed>>

(***************************************************************************)
(* Best-effort side effects.  AuthService.createAuditLog wraps its write   *)
(* in try/catch and the email sends of signup, resendVerificationEmail and *)
(* requestPasswordReset are wrapped where they are called: each returns    *)
(* normally whether the write or the send succeeds or fails.               *)
(***************************************************************************)
\* the failure of the write reaches the caller
createAuditLogUncaught(writeOk) == IF writeOk THEN "logged" ELSE "thrown"

createAuditLog(writeOk) == IF writeOk THEN "logged" ELSE "caught"

sendBestEffort(sendOk) == IF sendOk THEN "sent" ELSE "caught"

\* a call cut short at a side effect: its row writes are done, the session
\* it was about to create is not, and the caller gets the error
Interrupted(r) ==
  Result("Error", "side effect failed", r.users, r.sessions \cap sessions, r.nonce,
         nextSession, NoJwt, NoJwt, r.data)

\* the outcome r of a call that reaches an audit-log write (audits) and an
\* email send (sends) on its path
WithSideEffects(r, audits, sends, auditOk, emailOk) ==
  IF audits /\ createAuditLog(auditOk) = "thrown" THEN Interrupted(r)
  ELSE IF sends /\ sendBestEffort(emailOk) = "thrown" THEN Interrupted(r)
  ELSE r

SignupOutcome(email, password, auditOk, emailOk) ==
  LET r == SignupResult(email, password)
  IN WithSideEffects(r, r.users # users, r.users # users, auditOk, emailOk)

LoginOutcome(email, password, twoFactorCode, auditOk) ==
  LET r == LoginResult(email, password, twoFactorCode)
  IN WithSideEffects(r, r.data[2] /\ r.kind # "requiresTwoFactor", FALSE, auditOk, TRUE)

ResendVerificationEmailOutcome(email, emailOk) ==
  LET r == ResendVerificationEmailResult(email)
  IN WithSideEffects(r, FALSE, r.users # users, TRUE, emailOk)

RequestPasswordResetOutcome(email, auditOk, emailOk) ==
  LET r == RequestPasswordResetResult(email)
  IN WithSideEffects(r, r.users # users, r.users # users, auditOk, emailOk)

ResetPasswordOutcome(token, newPassword, auditOk) ==
  LET r == ResetPasswordResult(token, newPassword)
  IN WithSideEffects(r, r.kind = "ok", FALSE, auditOk, TRUE)

Enable2FAVerifyOutcome(userId, code, auditOk) ==
  LET r == Enable2FAVerifyResult(userId, code)
  IN WithSideEffects(r, r.kind = "ok", FALSE, auditOk, TRUE)

Disable2FAOutcome(userId, password, auditOk) ==
  LET r == Disable2FAResult(userId, password)
  IN WithSideEffects(r, r.kind = "ok", FALSE, auditOk, TRUE)

LogoutOutcome(refreshToken, auditOk) ==
  LET r == LogoutResult(refreshToken)
  IN WithSideEffects(r, r.sessions # sessions, FALSE, auditOk, TRUE)

(***************************************************************************)
(* Overlapping calls.  A call awaits its first query, runs its checks on   *)
(* the row that query returned and then awaits its update; other calls run *)
(* between the two.  pending holds the calls that have read and not yet    *)
(* written, each with the row it read.                                     *)
(***************************************************************************)
WithinRace(r) ==
  /\ Cardinality(DOMAIN r.users) <= MaxUsers
  /\ r.nonce <= MaxRaceNonce
  /\ r.nextSession <= MaxRaceSessions
  /\ \A u \in DOMAIN r.users : r.users[u].failedLoginAttempts <= MaxFailed

InstallRace(r) ==
  /\ WithinRace(r)
  /\ users' = r.users
  /\ sessions' = r.sessions
  /\ nonce' = r.nonce
  /\ nextSession' = r.nextSession
  /\ inflight' = inflight

Idle(caller) == ~\E c \in pending : c.caller = caller

\* the call and the row its findUnique returned
PendingCall(op, caller, userId, password, code) ==
  [ op |-> op, caller |-> caller, userId |-> userId, user |-> users[userId],
    password |-> password, code |-> code, phase |-> "read", codes |-> <<>> ]

BeginCall(c) ==
  /\ Idle(c.caller)
  /\ pending' = pending \cup {c}
  /\ UNCHANGED <<users, sessions, now, nonce, nextSession, ticks, wrongRun, consumed,
                 inflight>>

\* enable2FAInit: findUnique and the checks; then the update
Enable2FAInitBegin(caller, userId) ==
  /\ Enable2FAInitResult(userId).kind = "ok"
  /\ BeginCall(PendingCall("enable2FAInit", caller, userId, <<>>, NoCode))

Enable2FAInitWrite(c) ==
  Result("ok", "Scan the QR code with your authenticator app",
         [users EXCEPT ![c.userId].twoFactorSecret = nonce + 1],
         sessions, nonce + 1, nextSession, NoJwt, NoJwt, nonce + 1)

Enable2FAInitFinish(caller) ==
  \E c \in pending :
    /\ c.caller = caller /\ c.op = "enable2FAInit"
    /\ InstallRace(Enable2FAInitWrite(c))
    /\ pending' = pending \ {c}
    /\ UNCHANGED <<now, ticks, wrongRun, consumed>>

\* enable2FAVerify: findUnique, the checks and verifyTOTP; then the update
Enable2FAVerifyBegin(caller, userId, code) ==
  /\ Enable2FAVerifyResult(userId, code).kind = "ok"
  /\ BeginCall(PendingCall("enable2FAVerify", caller, userId, <<>>, code))

Enable2FAVerifyWrite(c) ==
  LET backupCodes == generateBackupCodes(nonce + 1, BackupCodeCount)
      hashedBackupCodes == [i \in DOMAIN backupCodes |-> hashBackupCode(backupCodes[i])]
  IN Result("ok", "Two-factor authentication enabled successfully",
            [users EXCEPT ![c.userId].twoFactorEnabled = TRUE,
                          ![c.userId].backupCodes = hashedBackupCodes],
            sessions, nonce + 1, nextSession, NoJwt, NoJwt, backupCodes)

Enable2FAVerifyFinish(caller) ==
  \E c \in pending :
    /\ c.caller = caller /\ c.op = "enable2FAVerify"
    /\ InstallRace(Enable2FAVerifyWrite(c))
    /\ pending' = pending \ {c}
    /\ UNCHANGED <<now, ticks, wrongRun, consumed>>

\* disable2FA: findUnique, the checks and comparePassword; then the update
Disable2FABegin(caller, userId, password) ==
  /\ Disable2FAResult(userId, password).kind = "ok"
  /\ BeginCall(PendingCall("disable2FA", caller, userId, password, NoCode))

Disable2FAWrite(c) ==
  Result("ok", "Two-factor authentication disabled",
         [users EXCEPT ![c.userId].twoFactorEnabled = FALSE,
                       ![c.userId].twoFactorSecret = NoToken,
                       ![c.userId].backupCodes = <<>>],
         sessions, nonce, nextSession, NoJwt, NoJwt, <<>>)

Disable2FAFinish(caller) ==
  \E c \in pending :
    /\ c.caller = caller /\ c.op = "disable2FA"
    /\ InstallRace(Disable2FAWrite(c))
    /\ pending' = pending \ {c}
    /\ UNCHANGED <<now, ticks, wrongRun, consumed>>

\* login: findUnique, the checks up to the lock check; the call goes on to
\* comparePassword with the row it holds
LoginBegin(caller, email, password, twoFactorCode) ==
  LET id == FindByEmail(normalizeEmail(email))
  IN /\ id # NoId
     /\ users[id].hashedPassword # NoHash
     /\ ~users[id].isSuspended
     /\ ~IsLocked(users[id])
     /\ BeginCall(PendingCall("login", caller, id, password, twoFactorCode))

\* the call is about to enter verifyBackupCode, which reads the codes again
NeedsCodes(c) ==
  /\ c.phase = "read"
  /\ comparePassword(c.password, c.user.hashedPassword)
  /\ Requires2FA(c.user)
  /\ c.code # NoCode
  /\ ~verifyTOTPAt(c.code, c.user.twoFactorSecret, now)

\* verifyBackupCode: findUnique select backupCodes
LoginReadCodes(caller) ==
  \E c \in pending :
    /\ c.caller = caller /\ c.op = "login"
    /\ NeedsCodes(c)
    /\ pending' = (pending \ {c}) \cup
         {[c EXCEPT !.phase = "codes", !.codes = users[c.userId].backupCodes]}
    /\ UNCHANGED <<users, sessions, now, nonce, nextSession, ticks, wrongRun, consumed,
                   inflight>>

\* the counter is read again when it is written
AttemptsReadFresh(c) == users[c.userId].failedLoginAttempts

\* user.failedLoginAttempts of the row the call read
AttemptsRead(c) == c.user.failedLoginAttempts

\* the codes are read again when they are written
CodesReadFresh(c) == users[c.userId].backupCodes

\* user.backupCodes of the row verifyBackupCode read
CodesRead(c) == c.codes

\* the rest of login from comparePassword on, for a call that holds the row
\* (and, in phase "codes", the backup codes) it read
LoginWrite(c) ==
  LET id == c.userId
      user == c.user
      failedAttempts == AttemptsRead(c) + 1
      lockAccount == LockAccount(failedAttempts)
      backup == verifyBackupCode(CodesRead(c), c.code)
      accessToken == generateAccessTokenAt(id, user.email, now)
      refreshToken == generateRefreshTokenAt(id, user.email, now)
      loggedIn == [users EXCEPT ![id].backupCodes =
                                   IF c.phase = "codes" THEN backup.codes ELSE @,
                                ![id].failedLoginAttempts = 0,
                                ![id].lockedUntil = NoTime,
                                ![id].lastLoginAt = now]
  IN IF ~comparePassword(c.password, user.hashedPassword)
       THEN Result("UnauthorizedError", WrongPasswordMessage(lockAccount),
                   [users EXCEPT ![id].failedLoginAttempts = failedAttempts,
                                 ![id].lockedUntil =
                                    IF lockAccount THEN now + LockSeconds ELSE NoTime],
                   sessions, nonce, nextSession, NoJwt, NoJwt, <<id, TRUE, 0>>)
     ELSE IF Requires2FA(user) /\ c.code = NoCode
       THEN Reject("requiresTwoFactor", "Two-factor authentication required",
                   <<id, TRUE, 0>>)
     ELSE IF c.phase = "codes" /\ ~backup.valid
       THEN Reject("UnauthorizedError", "Invalid two-factor authentication code",
                   <<id, TRUE, 0>>)
     ELSE IF RefreshTokenTaken(sessions, refreshToken)
       THEN Result("PrismaError", "P2002", loggedIn, sessions, nonce, nextSession,
                   NoJwt, NoJwt, <<id, TRUE, 0>>)
     ELSE Result("ok", "login", loggedIn,
                 createSession(sessions, nextSession, id, refreshToken),
                 nonce, nextSession + 1, accessToken, refreshToken, <<id, TRUE, 0>>)

CodeKey(code) == code[2] * (MaxCodeIdx + 1) + code[3]

\* history of a completed call: the backup code it was let in with and the
\* session it opened; a session opened after the password it was checked
\* against had been replaced
LoginHistory(c, r) ==
  (IF r.kind \in {"ok", "PrismaError"} /\ c.phase = "codes" THEN {c.code} ELSE {})
    \cup (IF r.kind = "ok" /\ c.phase = "codes"
            THEN {<<"spent", CodeKey(c.code), r.nextSession>>} ELSE {})
    \cup (IF r.kind = "ok" /\ users[c.userId].hashedPassword # c.user.hashedPassword
            THEN {<<"stale", c.userId, r.nextSession>>} ELSE {})

LoginFinish(caller) ==
  \E c \in pending :
    /\ c.caller = caller /\ c.op = "login"
    /\ ~NeedsCodes(c)
    /\ InstallRace(LoginWrite(c))
    /\ pending' = pending \ {c}
    /\ wrongRun' = IF ~comparePassword(c.password, c.user.hashedPassword)
                     THEN [wrongRun EXCEPT ![c.userId] =
                             IF @ < LockThreshold THEN @ + 1 ELSE @]
                     ELSE [wrongRun EXCEPT ![c.userId] = 0]
    /\ consumed' = consumed \cup LoginHistory(c, LoginWrite(c))
    /\ UNCHANGED <<now, ticks>>

(***************************************************************************)
(* Suspension is written by an administrator directly in the store.        *)
(***************************************************************************)
AdminSuspend(userId) ==
  /\ userId \in UserIds
  /\ ~users[userId].isSuspended
  /\ users' = [users EXCEPT ![userId].isSuspended = TRUE]
  /\ UNCHANGED <<sessions, now, nonce, nextSession, ticks, wrongRun, consumed, inflight,
                 pending>>

(***************************************************************************)
(* The clock.                                                              *)
(***************************************************************************)
Tick(d) ==
  /\ ticks < MaxTicks
  /\ now' = now + d
  /\ ticks' = ticks + 1
  /\ UNCHANGED <<users, sessions, nonce, nextSession, wrongRun, consumed, inflight,
                 pending>>

(***************************************************************************)
(* Every operation with every input.                                       *)
(***************************************************************************)
TokenInputs == 1..nonce
UserIdInputs == 1..MaxUsers
RefreshTokenInputs == {s.refreshToken : s \in sessions}

Next ==
  \/ \E email \in EmailInputs, password \in PasswordInputs : Signup(email, password)
  \/ \E email \in EmailInputs, password \in PasswordInputs, code \in CodeInputs :
       Login(email, password, code)
  \/ \E provider \in ProviderInputs, providerId \in ProviderIdInputs, email \in EmailInputs :
       OauthLogin(provider, providerId, email)
  \/ \E token \in TokenInputs : VerifyEmail(token)
  \/ \E email \in EmailInputs : ResendVerificationEmail(email)
  \/ \E email \in EmailInputs : RequestPasswordReset(email)
  \/ \E token \in TokenInputs, password \in PasswordInputs : ResetPassword(token, password)
  \/ \E userId \in UserIdInputs : Enable2FAInit(userId)
  \/ \E userId \in UserIdInputs, code \in CodeInputs : Enable2FAVerify(userId, code)
  \/ \E userId \in UserIdInputs, password \in PasswordInputs : Disable2FA(userId, password)
  \/ \E refreshToken \in RefreshTokenInputs : RefreshAccessToken(refreshToken)
  \/ \E refreshToken \in RefreshTokenInputs : Logout(refreshToken)
  \/ \E userId \in UserIdInputs : LogoutAllDevices(userId)
  \/ \E sessionId \in 1..nextSession, userId \in UserIdInputs : DeleteSession(sessionId, userId)
  \/ \E userId \in UserIdInputs, current \in PasswordInputs, new \in PasswordInputs :
       UpdatePassword(userId, current, new)
  \/ \E userId \in UserIdInputs, password \in PasswordInputs : DeleteAccount(userId, password)
  \/ \E sessionId \in 1..nextSession, userId \in UserIdInputs :
       \/ RevokeSession(userId, sessionId)
       \/ RevokeAllSessions(userId, sessionId)
  \/ \E userId \in UserIdInputs, type \in {"access", "refresh"} :
       \/ AuthMiddleware(SignToken(type, userId, EmailA, now))
       \/ OptionalAuthenticate(SignToken(type, userId, EmailA, now))
       \/ RevokeAllSessionsRequest(SignToken(type, userId, EmailA, now))
  \/ \E userId \in UserIdInputs, current \in PasswordInputs, new \in PasswordInputs :
       UpdatePasswordRequest(userId, current, new)
  \/ \E caller \in Callers, email \in EmailInputs, password \in PasswordInputs :
       SignupBegin(caller, email, password)
  \/ \E caller \in Callers : SignupFinish(caller)
  \/ \E caller \in Callers, userId \in UserIdInputs : Enable2FAInitBegin(caller, userId)
  \/ \E caller \in Callers : Enable2FAInitFinish(caller)
  \/ \E caller \in Callers, userId \in UserIdInputs, code \in CodeInputs :
       Enable2FAVerifyBegin(caller, userId, code)
  \/ \E caller \in Callers : Enable2FAVerifyFinish(caller)
  \/ \E caller \in Callers, userId \in UserIdInputs, password \in PasswordInputs :
       Disable2FABegin(caller, userId, password)
  \/ \E caller \in Callers : Disable2FAFinish(caller)
  \/ \E caller \in Callers, email \in EmailInputs, password \in PasswordInputs,
        code \in CodeInputs : LoginBegin(caller, email, password, code)
  \/ \E caller \in Callers : LoginReadCodes(caller)
  \/ \E caller \in Callers : LoginFinish(caller)
  \/ \E userId \in UserIdInputs : AdminSuspend(userId)
  \/ \E d \in JumpInputs : Tick(d)

Spec == Init /\ [][Next]_vars

(***************************************************************************)
(* Workloads: the operations and inputs the clients of a run issue.        *)
(***************************************************************************)

\* password login against one password account and one OAuth-only account
NextLockout ==
  \/ Signup(EmailA, PwA)
  \/ OauthLogin("google", "g-1", EmailB)
  \/ \E email \in {EmailAUpper, EmailB, EmailMalformed}, password \in {PwA, PwB} :
       Login(email, password, NoCode)
  \/ RequestPasswordReset(EmailAUpper)
  \/ \E token \in TokenInputs, password \in {PwB, PwShort} : ResetPassword(token, password)
  \/ AdminSuspend(1)
  \/ \E d \in {1, LockSeconds} : Tick(d)

SpecLockout == Init /\ [][NextLockout]_vars

\* 2FA enrolment and login with a second factor
NextTwoFactor ==
  \/ Signup(EmailA, PwA)
  \/ Enable2FAInit(1)
  \/ \E code \in CodeInputs : Enable2FAVerify(1, code)
  \/ \E password \in {PwA, PwB} : Disable2FA(1, password)
  \/ \E password \in {PwA, PwB}, code \in CodeInputs : Login(EmailA, password, code)
  \/ AdminSuspend(1)
  \/ \E d \in {1, 2 * TotpStepSeconds} : Tick(d)

SpecTwoFactor == Init /\ [][NextTwoFactor]_vars

\* password reset and the sessions it revokes
NextRecovery ==
  \/ \E email \in {EmailA, EmailB} : Signup(email, PwA)
  \/ \E password \in {PwA, PwB} : Login(EmailA, password, NoCode)
  \/ \E email \in {EmailAUpper, EmailB, EmailMalformed} : RequestPasswordReset(email)
  \/ \E token \in TokenInputs, password \in {PwB, PwWeak} : ResetPassword(token, password)
  \/ \E refreshToken \in RefreshTokenInputs : RefreshAccessToken(refreshToken)
  \/ \E d \in {1, ResetExpirySeconds} : Tick(d)

SpecRecovery == Init /\ [][NextRecovery]_vars

\* sign-up and email verification
NextSignup ==
  \/ \E email \in EmailInputs, password \in PasswordInputs : Signup(email, password)
  \/ OauthLogin("google", "g-1", EmailB)
  \/ \E token \in TokenInputs : VerifyEmail(token)
  \/ \E email \in {EmailAUpper, EmailB, EmailMalformed} : ResendVerificationEmail(email)
  \/ \E userId \in UserIdInputs : DeleteAccount(userId, PwA)
  \/ \E d \in {1, VerifyExpirySeconds + 1} : Tick(d)

SpecSignup == Init /\ [][NextSignup]_vars

\* sessions on several devices: refresh, logout, revocation, deletion, expiry
SessionIdInputs == 1..MaxSessions

AuthTokenInputs ==
  {SignToken(type, u, EmailA, t) :
     type \in {"access", "refresh"}, u \in UserIdInputs, t \in {0, now}}
    \cup {NoJwt}

RefreshInputs ==
  RefreshTokenInputs \cup {NoJwt}
    \cup {generateRefreshTokenAt(u, users[u].email, t) : u \in UserIds, t \in {0, now}}

NextSessions ==
  \/ Signup(EmailA, PwA)
  \/ Login(EmailAUpper, PwA, NoCode)
  \/ OauthLogin("google", "g-1", EmailB)
  \/ \E refreshToken \in RefreshInputs : RefreshAccessToken(refreshToken)
  \/ \E token \in AuthTokenInputs : AuthMiddleware(token)
  \/ \E token \in AuthTokenInputs : OptionalAuthenticate(token)
  \/ \E token \in AuthTokenInputs : RevokeAllSessionsRequest(token)
  \/ \E refreshToken \in RefreshTokenInputs : Logout(refreshToken)
  \/ \E userId \in UserIdInputs : LogoutAllDevices(userId)
  \/ \E userId \in UserIdInputs, sessionId \in SessionIdInputs :
       \/ DeleteSession(sessionId, userId)
       \/ RevokeSession(userId, sessionId)
       \/ RevokeAllSessions(userId, sessionId)
  \/ \E userId \in UserIdInputs, password \in {PwA, PwB} : DeleteAccount(userId, password)
  \/ \E userId \in UserIdInputs : AdminSuspend(userId)
  \/ \E d \in {1, AccessTokenSeconds, SessionSeconds + 1} : Tick(d)

SpecSessions == Init /\ [][NextSessions]_vars

\* every operation that writes hashedPassword
NextPasswords ==
  \/ \E password \in PasswordInputs : Signup(EmailA, password)
  \/ RequestPasswordReset(EmailA)
  \/ \E token \in TokenInputs, password \in PasswordInputs : ResetPassword(token, password)
  \/ \E currentPassword \in {PwA, PwB}, newPassword \in PasswordInputs :
       UpdatePasswordRequest(1, currentPassword, newPassword)
  \/ \E password \in PasswordInputs : Login(EmailA, password, NoCode)
  \/ \E d \in {1, ResetExpirySeconds} : Tick(d)

SpecPasswords == Init /\ [][NextPasswords]_vars

\* signup calls interleaved with one another and with other writers of email
NextInterleave ==
  \/ \E caller \in Callers, email \in {EmailA, EmailAMixed, EmailB} :
       SignupBegin(caller, email, PwA)
  \/ \E caller \in Callers : SignupFinish(caller)
  \/ \E email \in {EmailA, EmailAMixed, EmailAUpper} : Signup(email, PwA)
  \/ OauthLogin("google", "g-1", EmailB)
  \/ \E userId \in UserIdInputs : DeleteAccount(userId, PwA)
  \/ Tick(1)

SpecInterleave == Init /\ [][NextInterleave]_vars

\* overlapping two-factor enrolment calls of one user
NextTwoFactorRace ==
  \/ Signup(EmailA, PwA)
  \/ \E caller \in Callers : Enable2FAInitBegin(caller, 1)
  \/ \E caller \in Callers : Enable2FAInitFinish(caller)
  \/ \E caller \in Callers, code \in CodeInputs : Enable2FAVerifyBegin(caller, 1, code)
  \/ \E caller \in Callers : Enable2FAVerifyFinish(caller)
  \/ \E caller \in Callers : Disable2FABegin(caller, 1, PwA)
  \/ \E caller \in Callers : Disable2FAFinish(caller)
  \/ \E code \in CodeInputs : Login(EmailA, PwA, code)
  \/ Tick(1)

SpecTwoFactorRace == Init /\ [][NextTwoFactorRace]_vars

\* overlapping password logins of one user
NextLockoutRace ==
  \/ Signup(EmailA, PwA)
  \/ \E caller \in Callers, password \in {PwA, PwB} :
       LoginBegin(caller, EmailAUpper, password, NoCode)
  \/ \E caller \in Callers : LoginFinish(caller)
  \/ Tick(LockSeconds)

SpecLockoutRace == Init /\ [][NextLockoutRace]_vars

\* a password reset while logins of the same user are under way
NextResetRace ==
  \/ Signup(EmailA, PwA)
  \/ \E caller \in Callers, password \in {PwA, PwB} :
       LoginBegin(caller, EmailAUpper, password, NoCode)
  \/ \E caller \in Callers : LoginFinish(caller)
  \/ RequestPasswordReset(EmailA)
  \/ \E token \in TokenInputs : ResetPassword(token, PwB)

SpecResetRace == Init /\ [][NextResetRace]_vars

\* overlapping logins of one user that present a backup code
NextBackupRace ==
  \/ Signup(EmailA, PwA)
  \/ Enable2FAInit(1)
  \/ \E code \in CodeInputs : Enable2FAVerify(1, code)
  \/ \E caller \in Callers, code \in {x \in CodeInputs : x[1] = "backup"} :
       LoginBegin(caller, EmailAUpper, PwA, code)
  \/ \E caller \in Callers : LoginReadCodes(caller)
  \/ \E caller \in Callers : LoginFinish(caller)
  \/ LogoutAllDevices(1)
  \/ Tick(1)

SpecBackupRace == Init /\ [][NextBackupRace]_vars

\* the operations that write an audit log or send an email
NextSideEffects ==
  \/ Signup(EmailA, PwA)
  \/ \E password \in {PwA, PwB}, code \in CodeInputs : Login(EmailA, password, code)
  \/ ResendVerificationEmail(EmailA)
  \/ RequestPasswordReset(EmailA)
  \/ \E token \in TokenInputs : ResetPassword(token, PwB)
  \/ Enable2FAInit(1)
  \/ \E code \in CodeInputs : Enable2FAVerify(1, code)
  \/ \E password \in {PwA, PwB} : Disable2FA(1, password)
  \/ \E refreshToken \in RefreshTokenInputs : Logout(refreshToken)
  \/ Tick(1)

SpecSideEffects == Init /\ [][NextSideEffects]_vars

(***************************************************************************)
(* Helpers of the properties.                                              *)
(***************************************************************************)
\* an address no row holds in any workload
UnknownEmail == EmailMalformed

HasPassword(u) == users[u].hashedPassword # NoHash

\* the password whose hash the row stores
CorrectPasswords(u) == {p \in PasswordInputs : comparePassword(p, users[u].hashedPassword)}
WrongPasswords(u) == PasswordInputs \ CorrectPasswords(u)

LockoutMessage == "Account locked due to too many failed login attempts"

NoTokens(r) == r.accessToken = NoJwt /\ r.refreshToken = NoJwt

\* C1: For an account with a password hash that is not suspended, the fifth
\* consecutive login call with a wrong password leaves the account locked,
\* with lockedUntil = now + 15 minutes when that call compared the password;
\* and while lockedUntil is in the future every login call, whatever the
\* password and second factor, fails with the lockout UnauthorizedError,
\* compares no password, creates no session and issues no tokens.
C1_LockoutAfterFiveFailures ==
  \A u \in UserIds :
    (HasPassword(u) /\ ~users[u].isSuspended) =>
      /\ \A p \in WrongPasswords(u), c \in CodeInputs :
           LET r == LoginResult(users[u].email, p, c)
           IN wrongRun[u] = LockThreshold - 1 =>
                /\ r.kind = "UnauthorizedError"
                /\ r.users[u].lockedUntil # NoTime
                /\ r.users[u].lockedUntil > now
                /\ r.data[2] => r.users[u].lockedUntil = now + LockSeconds
                /\ r.sessions = sessions
                /\ NoTokens(r)
      /\ (users[u].lockedUntil # NoTime /\ users[u].lockedUntil > now) =>
           \A p \in PasswordInputs, c \in CodeInputs :
             LET r == LoginResult(users[u].email, p, c)
             IN /\ r.kind = "UnauthorizedError"
                /\ r.msg = LockoutMessage
                /\ r.data[2] = FALSE
                /\ r.users = users
                /\ r.sessions = sessions
                /\ NoTokens(r)

\* five consecutive wrong passwords were entered and the account is locked
C1_Witness ==
  \E u \in UserIds :
    /\ wrongRun[u] = LockThreshold
    /\ users[u].failedLoginAttempts = LockThreshold
    /\ users[u].lockedUntil = now + LockSeconds
    /\ CorrectPasswords(u) # {}

SameError(r, q) == r.kind = q.kind /\ r.msg = q.msg

\* C5 as stated: a login that fails on a wrong password, and a login for a
\* row without a password hash, return the same error kind and message as a
\* login for an address that has no row, whatever failedLoginAttempts is.
C5_Original ==
  \A u \in UserIds, p \in PasswordInputs, c \in CodeInputs :
    LET r == LoginResult(users[u].email, p, c)
        unknown == LoginResult(UnknownEmail, p, c)
    IN /\ unknown.kind = "UnauthorizedError"
       /\ unknown.msg = "Invalid email or password"
       /\ ~HasPassword(u) => SameError(r, unknown)
       /\ (HasPassword(u) /\ p \in WrongPasswords(u) /\ r.data[2]) => SameError(r, unknown)

\* C5 amended: the same holds while the failure leaves failedLoginAttempts
\* below 5; the failure that brings it to 5 or more is an UnauthorizedError
\* too, with the message that announces the lock.
C5_SameErrorBelowThreshold ==
  \A u \in UserIds, p \in PasswordInputs, c \in CodeInputs :
    LET r == LoginResult(users[u].email, p, c)
        unknown == LoginResult(UnknownEmail, p, c)
    IN /\ unknown.kind = "UnauthorizedError"
       /\ unknown.msg = "Invalid email or password"
       /\ ~HasPassword(u) => SameError(r, unknown)
       /\ (HasPassword(u) /\ p \in WrongPasswords(u) /\ r.data[2]) =>
            /\ r.kind = "UnauthorizedError"
            /\ users[u].failedLoginAttempts + 1 < LockThreshold => SameError(r, unknown)
            /\ users[u].failedLoginAttempts + 1 >= LockThreshold =>
                 r.msg = "Too many failed login attempts. Account locked for 15 minutes."

\* wrong passwords were entered for a password account, below the threshold,
\* next to an account without a password hash
C5_Witness ==
  \E u, v \in UserIds :
    /\ HasPassword(u)
    /\ wrongRun[u] > 0
    /\ users[u].failedLoginAttempts > 0
    /\ users[u].failedLoginAttempts < LockThreshold - 1
    /\ ~users[u].isSuspended
    /\ ~HasPassword(v)

\* C6 as stated: a wrong-password login adds exactly 1 to failedLoginAttempts,
\* no login that fails lowers it, a successful login leaves it 0 with
\* lockedUntil null, and of the other operations only a successful
\* resetPassword changes it.
C6_Original ==
  \A u \in UserIds :
    /\ \A e \in {users[v].email : v \in UserIds} \cup EmailInputs,
          p \in PasswordInputs, c \in CodeInputs :
         LET r == LoginResult(e, p, c)
         IN /\ (r.data[1] = u /\ r.data[2] /\ p \in WrongPasswords(u)) =>
                 r.users[u].failedLoginAttempts = users[u].failedLoginAttempts + 1
            /\ r.kind # "ok" =>
                 r.users[u].failedLoginAttempts >= users[u].failedLoginAttempts
            /\ (r.kind = "ok" /\ r.data[1] = u) =>
                 /\ r.users[u].failedLoginAttempts = 0
                 /\ r.users[u].lockedUntil = NoTime
            /\ (r.kind = "ok" /\ r.data[1] # u) =>
                 r.users[u].failedLoginAttempts = users[u].failedLoginAttempts
    /\ \A t \in TokenInputs, p \in PasswordInputs :
         LET r == ResetPasswordResult(t, p)
         IN r.users[u].failedLoginAttempts \in {0, users[u].failedLoginAttempts}
    /\ \A e \in EmailInputs :
         /\ RequestPasswordResetResult(e).users[u].failedLoginAttempts
              = users[u].failedLoginAttempts
         /\ \A pick \in OauthMatches("google", "g-1", e) :
              OauthLoginResult("google", "g-1", e, pick).users[u].failedLoginAttempts
                = users[u].failedLoginAttempts

BackupCodeInputs == {c \in CodeInputs : c[1] = "backup"}

Stored(u, code) == \E i \in DOMAIN users[u].backupCodes :
                     users[u].backupCodes[i] = hashBackupCode(code)

\* C3 as stated: for a user with 2FA enabled, a login with the correct
\* password and a stored backup code succeeds and removes exactly that
\* code's hash, the other hashes staying as they are; a later login that
\* presents a code already used fails with UnauthorizedError and creates no
\* session.
C3_Original ==
  \A u \in UserIds :
    (users[u].twoFactorEnabled /\ HasPassword(u) /\ ~users[u].isSuspended
       /\ ~IsLocked(users[u])) =>
      \A p \in CorrectPasswords(u), c \in BackupCodeInputs :
        LET r == LoginResult(users[u].email, p, c)
            before == users[u].backupCodes
            after == r.users[u].backupCodes
        IN /\ Stored(u, c) =>
                /\ r.kind = "ok"
                /\ Cardinality(r.sessions) = Cardinality(sessions) + 1
                /\ Len(after) = Len(before) - 1
                /\ \A i \in DOMAIN after : after[i] # hashBackupCode(c)
                /\ \A i \in DOMAIN before :
                     before[i] # hashBackupCode(c) =>
                       \E j \in DOMAIN after : after[j] = before[i]
           /\ c \in consumed =>
                /\ r.kind = "UnauthorizedError"
                /\ r.sessions = sessions
                /\ NoTokens(r)

\* C9: after enable2FAInit, enable2FAVerify with a code valid for the stored
\* secret succeeds, returns 10 distinct plaintext backup codes, stores
\* exactly their 10 hashes and sets twoFactorEnabled; while 2FA is enabled
\* every enable2FAVerify and enable2FAInit call fails with ValidationError
\* and leaves the user rows, secret and backup-code hashes included, as
\* they are.
C9_EnrollmentCompletesOnce ==
  \A u \in UserIds :
    /\ (~users[u].twoFactorEnabled /\ users[u].twoFactorSecret # NoToken) =>
         \A c \in CodeInputs :
           verifyTOTPAt(c, users[u].twoFactorSecret, now) =>
             LET r == Enable2FAVerifyResult(u, c)
             IN /\ r.kind = "ok"
                /\ Len(r.data) = BackupCodeCount
                /\ Cardinality(Range(r.data)) = BackupCodeCount
                /\ r.users[u].backupCodes =
                     [i \in DOMAIN r.data |-> hashBackupCode(r.data[i])]
                /\ r.users[u].twoFactorEnabled
                /\ r.users[u].twoFactorSecret = users[u].twoFactorSecret
    /\ users[u].twoFactorEnabled =>
         /\ Enable2FAInitResult(u).kind = "ValidationError"
         /\ Enable2FAInitResult(u).users = users
         /\ \A c \in CodeInputs :
              /\ Enable2FAVerifyResult(u, c).kind = "ValidationError"
              /\ Enable2FAVerifyResult(u, c).users = users

\* 2FA is enabled with the ten hashes of an enrolment stored
C9_Witness ==
  \E u \in UserIds :
    /\ users[u].twoFactorEnabled
    /\ users[u].twoFactorSecret # NoToken
    /\ Len(users[u].backupCodes) = BackupCodeCount

Issues(r) == r.sessions # sessions \/ ~NoTokens(r)

C2_Original ==
  /\ \A e \in consumed :
       e[1] = "reset" =>
         \A password \in PasswordInputs :
           ResetPasswordResult(e[2], password).kind = "ValidationError"
  /\ \A token \in TokenInputs, password \in PasswordInputs :
       LET r == ResetPasswordResult(token, password)
       IN r.kind = "ok" =>
            /\ SessionsOf(r.sessions, r.data) = {}
            /\ \A x \in SessionsOf(sessions, r.data) :
                 RefreshAccessTokenOn(r.users, r.sessions, x.refreshToken).kind
                   = "UnauthorizedError"
  /\ \A e \in consumed :
       e[1] = "revoked" =>
         RefreshAccessTokenResult(
           generateRefreshTokenAt(e[2], users[e[2]].email, e[3])).kind
             = "UnauthorizedError"

SameOutcome(r, q) == (r.kind = "ok") = (q.kind = "ok") /\ r.msg = q.msg

\* C4 as stated: for every store state and every email, the outcome of
\* requestPasswordReset(email) and of resendVerificationEmail(email) visible
\* to the caller (success or error, and the message) is the same whether or
\* not a row with that normalized email exists, whatever the row's state.
C4_Original ==
  \A email \in EmailInputs :
    /\ SameOutcome(RequestPasswordResetResult(email),
                   RequestPasswordResetResult(UnknownEmail))
    /\ SameOutcome(ResendVerificationEmailResult(email),
                   ResendVerificationEmailResult(UnknownEmail))

\* C7: every signup call that returns successfully creates a new user row,
\* returns an access token carrying that row's id, and leaves exactly one
\* Session row for that user, holding the returned refresh token.
C7_SignupTokenAndSingleSession ==
  \A email \in EmailInputs, password \in PasswordInputs :
    LET r == SignupResult(email, password)
    IN r.kind = "ok" =>
         /\ r.data \notin UserIds
         /\ r.data \in DOMAIN r.users
         /\ r.users[r.data].email = normalizeEmail(email)
         /\ r.accessToken.type = "access"
         /\ r.accessToken.userId = r.data
         /\ Cardinality(SessionsOf(r.sessions, r.data)) = 1
         /\ \A x \in SessionsOf(r.sessions, r.data) : x.refreshToken = r.refreshToken
         /\ r.refreshToken.type = "refresh"

\* a second account can sign up while the first account's signup session exists
C7_Witness ==
  /\ Cardinality(UserIds) = 1
  /\ Cardinality(sessions) = 1
  /\ \E email \in EmailInputs, password \in PasswordInputs :
       SignupResult(email, password).kind = "ok"

\* C8: for an unverified user holding an unexpired verification token,
\* verifyEmail(token) succeeds, sets emailVerified and clears the token and
\* its expiry; every later verifyEmail with that token, and every
\* verifyEmail with a token that belongs to a verified user, fails with
\* ValidationError and leaves the user rows unchanged.
C8_VerificationOneShot ==
  /\ \A u \in UserIds :
       LET token == users[u].emailVerificationToken
           r == VerifyEmailResult(token)
       IN /\ (~users[u].emailVerified /\ token # NoToken
                /\ users[u].emailVerificationExpiry >= now) =>
               /\ r.kind = "ok"
               /\ r.users[u].emailVerified
               /\ r.users[u].emailVerificationToken = NoToken
               /\ r.users[u].emailVerificationExpiry = NoTime
               /\ \A v \in UserIds \ {u} : r.users[v] = users[v]
          /\ (users[u].emailVerified /\ token # NoToken) =>
               /\ r.kind = "ValidationError"
               /\ r.users = users
  /\ \A e \in consumed :
       e[1] = "verify" =>
         /\ users[e[3]].emailVerified
         /\ VerifyEmailResult(e[2]).kind = "ValidationError"
         /\ VerifyEmailResult(e[2]).users = users
  /\ \A token \in TokenInputs :
       LET r == VerifyEmailResult(token)
       IN /\ r.kind \in {"ok", "ValidationError"}
          /\ \A u \in UserIds : users[u].emailVerified => r.users[u] = users[u]

\* a token has been used, and another account still holds an unexpired one
C8_Witness ==
  /\ \E e \in consumed : e[1] = "verify"
  /\ \E u \in UserIds : /\ ~users[u].emailVerified
                        /\ users[u].emailVerificationToken # NoToken
                        /\ users[u].emailVerificationExpiry >= now

\* C11: refreshAccessToken(t) fails with UnauthorizedError when no Session
\* row holds t; deletes exactly the session holding t and fails when its
\* expiresAt is before now; fails, writing nothing, when the owning user is
\* suspended or soft-deleted; otherwise returns an access token for the
\* session's user and changes only that session's lastUsedAt.  It never
\* changes a refreshToken value, never creates a session and never writes a
\* user row.
C11_RefreshFrame ==
  \A t \in RefreshInputs :
    LET r == RefreshAccessTokenResult(t)
        held == SessionByToken(sessions, t)
    IN /\ r.users = users
       /\ r.refreshToken = NoJwt
       /\ \A y \in r.sessions :
            \E x \in sessions : /\ x.id = y.id
                                /\ x.refreshToken = y.refreshToken
                                /\ x.userId = y.userId
       /\ held = {} =>
            /\ r.kind = "UnauthorizedError"
            /\ r.sessions = sessions
            /\ r.accessToken = NoJwt
       /\ \A x \in held :
            LET owner == users[x.userId]
            IN /\ x.expiresAt < now =>
                    /\ r.kind = "UnauthorizedError"
                    /\ r.sessions = sessions \ {x}
                    /\ r.accessToken = NoJwt
               /\ (x.expiresAt >= now
                     /\ (owner.isSuspended \/ owner.deletedAt # NoTime)) =>
                    /\ r.kind = "UnauthorizedError"
                    /\ r.sessions = sessions
                    /\ r.accessToken = NoJwt
               /\ (x.expiresAt >= now /\ ~owner.isSuspended
                     /\ owner.deletedAt = NoTime) =>
                    /\ r.kind = "ok"
                    /\ r.accessToken = generateAccessTokenAt(x.userId, owner.email, now)
                    /\ r.sessions = (sessions \ {x}) \cup {[x EXCEPT !.lastUsedAt = now]}

\* a session has been refreshed after its creation second, next to an
\* expired one or one of a suspended or deleted owner
C11_Witness ==
  /\ \E x \in sessions : x.lastUsedAt # x.expiresAt - SessionSeconds
  /\ \E x \in sessions : \/ x.expiresAt < now
                         \/ users[x.userId].isSuspended
                         \/ users[x.userId].deletedAt # NoTime

\* C12: authMiddleware passes a request on, with the token's user attached,
\* exactly when the bearer token is an unexpired signed token of type
\* 'access' and the user row loaded at that moment exists, is active, is not
\* suspended and is not soft-deleted; in every other case (a refresh-typed
\* token, a user suspended or deleted after the token was issued) it fails
\* with UnauthorizedError and attaches no identity.  It writes nothing.
C12_MiddlewareAdmitsOnlyLiveAccess ==
  \A token \in AuthTokenInputs :
    LET r == AuthMiddlewareResult(token)
        live == /\ token.type = "access"
                /\ now < token.iat + AccessTokenSeconds
                /\ token.userId \in UserIds
                /\ users[token.userId].isActive
                /\ ~users[token.userId].isSuspended
                /\ users[token.userId].deletedAt = NoTime
    IN /\ r.users = users /\ r.sessions = sessions
       /\ live => r.kind = "ok" /\ r.data = token.userId
       /\ ~live => r.kind = "UnauthorizedError" /\ r.data = NoId

\* an unexpired access token of a user deleted since its issue, and one of a
\* user suspended since, both rejected at this moment
C12_Witness ==
  /\ now < AccessTokenSeconds
  /\ \E u, v \in UserIds :
       /\ users[u].deletedAt # NoTime
       /\ users[v].isSuspended /\ users[v].deletedAt = NoTime
       /\ AuthMiddlewareResult(generateAccessTokenAt(u, EmailA, 0)).kind = "UnauthorizedError"
       /\ AuthMiddlewareResult(generateAccessTokenAt(v, EmailA, 0)).kind = "UnauthorizedError"

\* C13 as stated: once a session has been revoked (deleted by logout,
\* deleteSession, logoutAllDevices or resetPassword, or marked isRevoked by
\* revokeSession or revokeAllSessions), every later refreshAccessToken call
\* with that session's refresh token fails with UnauthorizedError and
\* returns no access token.
C13_Original ==
  \A e \in consumed :
    (e[1] \in {"deleted", "revoked", "marked"} /\ users[e[2]].deletedAt = NoTime) =>
      LET r == RefreshAccessTokenResult(
                 generateRefreshTokenAt(e[2], users[e[2]].email, e[3]))
      IN r.kind = "UnauthorizedError" /\ r.accessToken = NoJwt

\* the password a stored hash was derived from
PasswordOf(hash) == Tail(hash)

\* C14 as stated: in every reachable state every stored password hash was
\* derived from a password that satisfies the strength policy of
\* validatePasswordStrength (length, character classes, no deny-listed weak
\* substring), whichever of signup, resetPassword and the profile
\* updatePassword path wrote it.
C14_Original ==
  \A u \in UserIds :
    HasPassword(u) =>
      validatePasswordStrength(PasswordOf(users[u].hashedPassword)) = "ok"

Normal(email) == ToLowerCase(Trim(email))

\* the normalized email of a row; an anonymized email has no case or spaces
NormalOf(u) ==
  IF users[u].deletedAt # NoTime THEN users[u].email ELSE Normal(users[u].email)

Untouched(r) == r.users = users /\ r.sessions = sessions /\ NoTokens(r)

\* C15: in every reachable state at most one user row exists per normalized
\* (trimmed, lowercased) email; a signup whose normalized email equals that
\* of an existing row fails and creates neither a user row nor a session nor
\* tokens, also when the row appeared between the call's existence check and
\* its create (two interleaved signups for the same email).
C15_OneRowPerEmail ==
  /\ \A u, v \in UserIds :
       u # v => NormalOf(u) # NormalOf(v)
  /\ \A email \in EmailInputs \cup {EmailAMixed}, password \in PasswordInputs :
       (\E u \in UserIds : NormalOf(u) = Normal(email)) =>
         /\ SignupResult(email, password).kind # "ok"
         /\ Untouched(SignupResult(email, password))
  /\ \A c \in inflight :
       (\E u \in UserIds : NormalOf(u) = Normal(c.email)) =>
         /\ SignupFinishResult(c).kind # "ok"
         /\ Untouched(SignupFinishResult(c))

\* a signup passed its existence check and another call has since created
\* the row for the same email
C15_Witness ==
  \E c \in inflight : \E u \in UserIds :
    /\ users[u].email = c.email
    /\ HasPassword(u)

\* the call added one Session row, holding the returned refresh token, left
\* every earlier row as it was, and every refresh token that refreshed
\* before the call still refreshes after it
AddsOneSession(r) ==
  /\ sessions \subseteq r.sessions
  /\ Cardinality(r.sessions \ sessions) = 1
  /\ \A y \in r.sessions \ sessions : y.refreshToken = r.refreshToken
  /\ \A x \in sessions :
       RefreshAccessTokenResult(x.refreshToken).kind = "ok" =>
         RefreshAccessTokenOn(r.users, r.sessions, x.refreshToken).kind = "ok"

\* C16: every successful login, signup or OAuth login adds exactly one
\* Session row and leaves every previously existing Session row (of that
\* user and of other users) untouched, so a refresh token obtained by an
\* earlier login still refreshes after the new login.
C16_LoginAddsOneSession ==
  /\ \A email \in {EmailA, EmailAUpper, EmailB}, password \in {PwA, PwB} :
       /\ SignupResult(email, password).kind = "ok" =>
            AddsOneSession(SignupResult(email, password))
       /\ LoginResult(email, password, NoCode).kind = "ok" =>
            AddsOneSession(LoginResult(email, password, NoCode))
  /\ \A email \in {EmailA, EmailB} :
       \A pick \in IF OauthMatches("google", "g-1", email) = {} THEN {NoId}
                   ELSE OauthMatches("google", "g-1", email) :
         OauthLoginResult("google", "g-1", email, pick).kind = "ok" =>
           AddsOneSession(OauthLoginResult("google", "g-1", email, pick))

\* after a second login from another device one user holds two sessions,
\* created at different seconds, and both refresh
C16_Witness ==
  \E x, y \in sessions :
    /\ x.userId = y.userId
    /\ x.id # y.id
    /\ x.refreshToken.iat < y.refreshToken.iat
    /\ users[x.userId].lastLoginAt = y.refreshToken.iat
    /\ RefreshAccessTokenResult(x.refreshToken).kind = "ok"
    /\ RefreshAccessTokenResult(y.refreshToken).kind = "ok"

\* C17: for signup, login, resendVerificationEmail, requestPasswordReset,
\* resetPassword, enable2FAVerify, disable2FA and logout, the returned
\* result or raised error and the resulting User and Session rows are the
\* same whether the audit-log write and the email send succeed or fail.
C17_SideEffectsBestEffort ==
  \A auditOk \in BOOLEAN, emailOk \in BOOLEAN :
    /\ \A password \in {PwA, PwB} :
         /\ SignupOutcome(EmailA, password, auditOk, emailOk)
              = SignupOutcome(EmailA, password, TRUE, TRUE)
         /\ \A code \in CodeInputs :
              LoginOutcome(EmailA, password, code, auditOk)
                = LoginOutcome(EmailA, password, code, TRUE)
         /\ Disable2FAOutcome(1, password, auditOk) = Disable2FAOutcome(1, password, TRUE)
    /\ ResendVerificationEmailOutcome(EmailA, emailOk)
         = ResendVerificationEmailOutcome(EmailA, TRUE)
    /\ RequestPasswordResetOutcome(EmailA, auditOk, emailOk)
         = RequestPasswordResetOutcome(EmailA, TRUE, TRUE)
    /\ \A token \in TokenInputs :
         ResetPasswordOutcome(token, PwB, auditOk) = ResetPasswordOutcome(token, PwB, TRUE)
    /\ \A code \in CodeInputs :
         Enable2FAVerifyOutcome(1, code, auditOk) = Enable2FAVerifyOutcome(1, code, TRUE)
    /\ \A refreshToken \in RefreshTokenInputs :
         LogoutOutcome(refreshToken, auditOk) = LogoutOutcome(refreshToken, TRUE)

\* a state where a login, a 2FA switch-off and a logout would each reach
\* their audit-log write, and a resend its email send
C17_Witness ==
  /\ LoginResult(EmailA, PwB, NoCode).data[2]
  /\ Disable2FAResult(1, PwA).kind = "ok"
  /\ ResendVerificationEmailResult(EmailA).users # users
  /\ sessions # {}

\* C18 as stated: for a user whose password hash is absent (OAuth-only
\* account), in every reachable state, password login fails and creates no
\* session, disable2FA fails and leaves twoFactorEnabled, twoFactorSecret
\* and backupCodes unchanged, and deleteAccount called with any password
\* does not soft-delete the row.
C18_Original ==
  \A u \in UserIds :
    (users[u].hashedPassword = NoHash /\ users[u].deletedAt = NoTime) =>
      \A password \in PasswordInputs :
        /\ LoginResult(users[u].email, password, NoCode).kind = "UnauthorizedError"
        /\ LoginResult(users[u].email, password, NoCode).sessions = sessions
        /\ Disable2FAResult(u, password).kind # "ok"
        /\ Disable2FAResult(u, password).users = users
        /\ DeleteAccountResult(u, password).users[u].deletedAt = NoTime

\* C19: deleteAccount, when it succeeds for user U, keeps the row and sets
\* deletedAt, isActive = false and an anonymized email, and deletes no
\* Session row; from then on every authMiddleware check with an access
\* token of U and every refreshAccessToken call with a refresh token of U
\* fails with UnauthorizedError; a deleteAccount call with a wrong password
\* on an account that has a password fails and leaves the rows unchanged.
C19_SoftDeleteEndsAccess ==
  \A u \in UserIds :
    /\ \A password \in {PwA, PwB} :
         LET r == DeleteAccountResult(u, password)
         IN /\ r.kind = "ok" =>
                 /\ u \in DOMAIN r.users
                 /\ r.users[u].deletedAt = now
                 /\ ~r.users[u].isActive
                 /\ r.users[u].email = DeletedEmail(u)
                 /\ r.sessions = sessions
                 /\ \A v \in UserIds \ {u} : r.users[v] = users[v]
            /\ (HasPassword(u) /\ password \in WrongPasswords(u)) =>
                 /\ r.kind = "AppError"
                 /\ r.users = users
                 /\ r.sessions = sessions
    /\ users[u].deletedAt # NoTime =>
         /\ ~users[u].isActive
         /\ users[u].email = DeletedEmail(u)
         /\ \A token \in AuthTokenInputs :
              token.userId = u => AuthMiddlewareResult(token).kind = "UnauthorizedError"
         /\ \A x \in SessionsOf(sessions, u) :
              /\ RefreshAccessTokenResult(x.refreshToken).kind = "UnauthorizedError"
              /\ RefreshAccessTokenResult(x.refreshToken).accessToken = NoJwt

\* a deleted account whose session row is still stored and unexpired, and
\* whose access token has not expired
C19_Witness ==
  \E u \in UserIds :
    /\ users[u].deletedAt # NoTime
    /\ HasPassword(u)
    /\ now < AccessTokenSeconds
    /\ \E x \in SessionsOf(sessions, u) : x.expiresAt >= now

\* C20 as stated: enable2FAVerify fails with NotFoundError when no setup
\* was initiated for the user (twoFactorSecret is unset), with
\* ValidationError when 2FA is already enabled or the code is invalid, and
\* in every failing case leaves twoFactorEnabled, twoFactorSecret and
\* backupCodes unchanged.
C20_Original ==
  \A u \in UserIds, code \in CodeInputs :
    LET r == Enable2FAVerifyResult(u, code)
    IN /\ (~users[u].twoFactorEnabled /\ users[u].twoFactorSecret = NoToken) =>
            r.kind = "NotFoundError"
       /\ users[u].twoFactorEnabled => r.kind = "ValidationError"
       /\ (~users[u].twoFactorEnabled /\ users[u].twoFactorSecret # NoToken
             /\ ~verifyTOTPAt(code, users[u].twoFactorSecret, now)) =>
            r.kind = "ValidationError"
       /\ r.kind # "ok" => r.users = users

\* C20 amended: enable2FAVerify fails with NotFoundError only when the user
\* row does not exist; when no setup was initiated (twoFactorSecret unset)
\* it fails with ValidationError 'Two-factor setup not initiated. Please
\* start the setup process first.', as it fails with ValidationError when
\* 2FA is already enabled or the code is invalid; every failing call leaves
\* the user rows unchanged.
C20_FailureKinds ==
  /\ \A u \in UserIdInputs \ UserIds, code \in CodeInputs :
       Enable2FAVerifyResult(u, code).kind = "NotFoundError"
  /\ \A u \in UserIds, code \in CodeInputs :
       LET r == Enable2FAVerifyResult(u, code)
       IN /\ (~users[u].twoFactorEnabled /\ users[u].twoFactorSecret = NoToken) =>
               r.kind = "ValidationError" /\ r.msg = SetupNotInitiatedMessage
          /\ users[u].twoFactorEnabled =>
               /\ r.kind = "ValidationError"
               /\ r.msg = "Two-factor authentication is already enabled"
          /\ (~users[u].twoFactorEnabled /\ users[u].twoFactorSecret # NoToken
                /\ ~verifyTOTPAt(code, users[u].twoFactorSecret, now)) =>
               r.kind = "ValidationError" /\ r.msg = "Invalid verification code"
          /\ r.kind # "ok" => r.users = users /\ r.sessions = sessions

\* 2FA was enrolled and switched off again: no secret is stored, and a code
\* of the old secret is presented
C20_Witness ==
  \E u \in UserIds :
    /\ ~users[u].twoFactorEnabled
    /\ users[u].twoFactorSecret = NoToken
    /\ nonce = MaxNonce
    /\ \E code \in CodeInputs :
         /\ code # NoCode
         /\ Enable2FAVerifyResult(u, code).msg = SetupNotInitiatedMessage

\* C21 as stated: optionalAuthenticate never rejects, and it attaches an
\* identity to the request exactly when authMiddleware would accept the
\* same request in the same state (so never for an inactive, suspended or
\* soft-deleted user).
C21_Original ==
  \A token \in AuthTokenInputs :
    /\ OptionalAuthenticateResult(token).kind = "ok"
    /\ OptionalAuthenticateResult(token).data = AuthMiddlewareResult(token).data

\* the sessions opened together with an access token: the same user's
\* sessions whose refresh token was issued at the same instant
CurrentSessions(token) ==
  {x \in sessions : x.userId = token.userId /\ x.refreshToken.iat = token.iat}

\* C22 as stated: DELETE /users/me/sessions sent with a session's access
\* token marks every other session of the caller revoked and leaves the
\* session the request came from untouched.
C22_Original ==
  \A token \in AuthTokenInputs :
    RevokeAllSessionsRequestResult(token).kind = "ok" =>
      \A x \in CurrentSessions(token) :
        x \in RevokeAllSessionsRequestResult(token).sessions

\* C23 as stated: under every interleaving of enable2FAInit,
\* enable2FAVerify and disable2FA calls, in every reachable state a user
\* with twoFactorEnabled has a twoFactorSecret, so a login with the correct
\* password and no second factor is never let through for such a user.
C23_Original ==
  \A u \in UserIds :
    users[u].twoFactorEnabled =>
      /\ users[u].twoFactorSecret # NoToken
      /\ \A p \in CorrectPasswords(u) :
           LoginResult(users[u].email, p, NoCode).kind = "requiresTwoFactor"

\* the login calls under way that entered verifyBackupCode and found their
\* code among the hashes they read
HoldsBackupCode(c) ==
  /\ c.op = "login"
  /\ c.phase = "codes"
  /\ verifyBackupCode(c.codes, c.code).valid

\* C24: backup-code consumption is not atomic.  A login that found its
\* backup code among the hashes it read is let through whatever the row
\* holds by then: it is never turned away for its second factor, it stores
\* the hashes it read minus that code, and unless the refresh token of this
\* second is taken it opens a session -- also when an overlapping login has
\* already been let in with the same code and has removed it from the row.
C24_BackupCodeSpentTwice ==
  \A c \in pending :
    HoldsBackupCode(c) =>
      LET r == LoginWrite(c)
      IN /\ r.kind \in {"ok", "PrismaError"}
         /\ r.users[c.userId].backupCodes = verifyBackupCode(c.codes, c.code).codes
         /\ r.kind = "ok" =>
              /\ Cardinality(r.sessions) = Cardinality(sessions) + 1
              /\ r.refreshToken # NoJwt

\* two overlapping logins were let in with the same backup code and the two
\* sessions they opened both exist
C24_Witness ==
  \E k \in 1..(MaxRaceNonce * (MaxCodeIdx + 1) + MaxCodeIdx) :
    \E x \in sessions, y \in sessions :
      /\ x.id # y.id
      /\ x.userId = y.userId
      /\ <<"spent", k, x.id>> \in consumed
      /\ <<"spent", k, y.id>> \in consumed
      /\ pending = {}

\* the login calls under way that were given a wrong password
HoldsWrongPassword(c) ==
  /\ c.op = "login"
  /\ ~comparePassword(c.password, c.user.hashedPassword)

\* C25: the lockout counter is a read-modify-write that is not atomic.  A
\* failed attempt stores the count it read plus one, and sets the lock from
\* that number, whatever the row holds by then; so of several overlapping
\* failed attempts that read the same count only one is counted, and five or
\* more failed attempts can complete with the account left unlocked.
C25_LostIncrement ==
  \A c \in pending :
    HoldsWrongPassword(c) =>
      LET r == LoginWrite(c)
          row == r.users[c.userId]
      IN /\ r.kind = "UnauthorizedError"
         /\ row.failedLoginAttempts = c.user.failedLoginAttempts + 1
         /\ row.lockedUntil =
              IF c.user.failedLoginAttempts + 1 >= LockThreshold
                THEN now + LockSeconds ELSE NoTime

\* five failed attempts in a row have completed and the counter is below
\* five, the account unlocked
C25_Witness ==
  \E u \in UserIds :
    /\ wrongRun[u] = LockThreshold
    /\ users[u].failedLoginAttempts < LockThreshold
    /\ users[u].lockedUntil = NoTime
    /\ pending = {}

\* C27 as stated: once resetPassword has returned, no Session row exists
\* that a login verified against the replaced password hash created, also
\* when that login overlapped the reset.
C27_Original ==
  \A x \in sessions : <<"stale", x.userId, x.id>> \notin consumed

\* a row that is suspended or soft-deleted
Barred(u) ==
  u \in UserIds /\ (users[u].isSuspended \/ users[u].deletedAt # NoTime)

\* the call opened a session for such a row or returned a token for it
ServesBarred(r) ==
  \/ \E x \in r.sessions \ sessions : Barred(x.userId)
  \/ r.accessToken # NoJwt /\ Barred(r.accessToken.userId)
  \/ r.refreshToken # NoJwt /\ Barred(r.refreshToken.userId)

\* C26 as stated: no signup, login or oauthLogin call creates a Session row
\* or returns tokens for a user that is suspended or soft-deleted.
C26_Original ==
  /\ \A email \in EmailInputs, password \in {PwA, PwB} :
       /\ ~ServesBarred(SignupResult(email, password))
       /\ ~ServesBarred(LoginResult(email, password, NoCode))
  /\ \A provider \in ProviderInputs, providerId \in ProviderIdInputs,
        email \in EmailInputs :
       \A pick \in OauthMatches(provider, providerId, email) :
         ~ServesBarred(OauthLoginResult(provider, providerId, email, pick))

\* C28 as stated: no login or OAuth login, however soon after another
\* session of the same user was opened, fails on the unique refreshToken
\* column once its own checks have passed; its createSession always gets a
\* refresh token no Session row holds.
C28_Original ==
  /\ \A email \in EmailInputs, password \in {PwA, PwB} :
       LoginResult(email, password, NoCode).kind # "PrismaError"
  /\ \A provider \in ProviderInputs, providerId \in ProviderIdInputs,
        email \in EmailInputs :
       \A pick \in OauthMatches(provider, providerId, email) :
         users[pick].providerIds[provider] = providerId =>
           OauthLoginResult(provider, providerId, email, pick).kind # "PrismaError"

\* a login of u with the right password and a second factor that is neither
\* the current TOTP code nor a stored backup code, for an account that is
\* asked for its second factor and is neither suspended nor locked
InvalidSecondFactor(u, code) ==
  /\ HasPassword(u)
  /\ ~users[u].isSuspended
  /\ ~IsLocked(users[u])
  /\ Requires2FA(users[u])
  /\ code # NoCode
  /\ ~verifyTOTPAt(code, users[u].twoFactorSecret, now)
  /\ ~Stored(u, code)

\* C29: a login with the correct password and an invalid second factor
\* fails with UnauthorizedError and leaves the user rows
\* (failedLoginAttempts, lockedUntil, backupCodes, lastLoginAt) and the
\* sessions as they are and returns no token; so no number of invalid codes
\* locks the account.
C29_InvalidSecondFactorChangesNothing ==
  \A u \in UserIds, code \in CodeInputs :
    InvalidSecondFactor(u, code) =>
      \A p \in CorrectPasswords(u) :
        LET r == LoginResult(users[u].email, p, code)
        IN /\ r.kind = "UnauthorizedError"
           /\ r.msg = "Invalid two-factor authentication code"
           /\ Untouched(r)
           /\ r.nonce = nonce /\ r.nextSession = nextSession

\* an account one failed password away from the lock is refused for a backup
\* code that was already used, and stays where it is
C29_Witness ==
  \E u \in UserIds, code \in CodeInputs :
    /\ InvalidSecondFactor(u, code)
    /\ code \in consumed
    /\ users[u].failedLoginAttempts = LockThreshold - 1
    /\ \E p \in CorrectPasswords(u) :
         LoginResult(users[u].email, p, code).kind = "UnauthorizedError"

\* the sessions of the other users are in S as they are in the store
OthersKept(userId, S) == \A x \in sessions : x.userId # userId => x \in S

\* C30: deleteSession(sessionId, userId) deletes the session, and only it,
\* when it belongs to userId, and otherwise fails with NotFoundError and
\* leaves every Session row as it is; and deleteSession, logoutAllDevices,
\* revokeSession and revokeAllSessions called for a user never delete or
\* revoke a session of another user.
C30_DeletionRespectsOwnership ==
  \A userId \in UserIdInputs, sessionId \in SessionIdInputs :
    LET own == {x \in sessions : x.id = sessionId /\ x.userId = userId}
        r == DeleteSessionResult(sessionId, userId)
    IN /\ own # {} => r.kind = "ok" /\ r.sessions = sessions \ own
       /\ own = {} => r.kind = "NotFoundError" /\ r.sessions = sessions
       /\ r.users = users
       /\ OthersKept(userId, r.sessions)
       /\ OthersKept(userId, LogoutAllDevicesResult(userId).sessions)
       /\ OthersKept(userId, RevokeSessionResult(userId, sessionId).sessions)
       /\ OthersKept(userId, RevokeAllSessionsResult(userId, sessionId).sessions)
       /\ \A token \in AuthTokenInputs :
            RevokeAllSessionsRequestResult(token).kind = "ok" =>
              OthersKept(token.userId, RevokeAllSessionsRequestResult(token).sessions)

\* a user who has deleted a session of their own is refused the deletion of
\* another user's session, which is still there
C30_Witness ==
  \E x \in sessions, a \in UserIds :
    /\ a # x.userId
    /\ \E e \in consumed : e[1] = "deleted" /\ e[2] = a
    /\ DeleteSessionResult(x.id, a).kind = "NotFoundError"
    /\ ~x.isRevoked

====
